---- MODULE Spec2Model ----
(***************************************************************************)
(* Model of the run-scoped storage protocol of the ChatGPT project         *)
(* indexer: the watch loop (runWatchMode), the Supabase writer             *)
(* (SupabaseWriter), the two SQL tables it writes (runs, projects) with    *)
(* the retention function safe_cleanup_old_runs, and addProject of the     *)
(* local JSON writer (ProjectWriter).                                      *)
(*                                                                         *)
(* Time is logical: one tick per pass.  The store may hold the runs of an  *)
(* earlier process (ticks 1..PriorRuns); pass n of this process happens at *)
(* tick PriorRuns + n, and every timestamp taken during it (firstSeenAt,   *)
(* lastConfirmedAt, started_at, completed_at) is that tick.  The uuid of a *)
(* run row is the tick of the pass that inserted it.  NULL is 0.           *)
(*                                                                         *)
(* Every await of a store round trip is a step boundary: a flush is split  *)
(* into the synchronous part before the upsert is sent and the part that   *)
(* runs when the upsert's answer arrives, so that the debounce-timer flush *)
(* can interleave with the pass as it does on the event loop.              *)
(*                                                                         *)
(* Spec is the watch loop over the Supabase backend with every store error *)
(* the code reads as a possible outcome.  TrackSpec is Spec together with  *)
(* the id sets of the delta: currentProjectIds of runSingleScan and        *)
(* previousProjectIds of runWatchMode.  HappySpec is the same loop         *)
(* with no error.  DedupSpec applies the addProject of both writers to the *)
(* same records.  FairSpec is the loop on an empty store with its own      *)
(* steps weakly fair.  WideSpec is Spec with the outcome where the status  *)
(* update of failRun returns an error.  SleepSpec, AuthSpec, ScrollSpec,   *)
(* ExtractSpec, ScanSpec, DetectSpec, LabelSpec and TimerSpec run one      *)
(* function each (sleep, ensureAuthenticated, the scroll loops, the        *)
(* extraction loops, runSingleScan, detectAuthState, the choice of a       *)
(* title, scheduleFlush and flush) on every input of a bounded set.        *)
(* BackendsSpec is runWatchMode over both backends with a store that is up *)
(* or down, TouchSpec is runWatchMode beside the touch queue processor,    *)
(* HeadSpec is runWatchMode with the browser it launches, NotifySpec is    *)
(* notify with its rate limiter, and FileSpec is flush of ProjectWriter    *)
(* with one step for each file operation it awaits.                        *)
(***************************************************************************)
EXTENDS Integers, FiniteSets, Sequences, TLC

\* ---- bounds ----
MaxScans == 1
MaxInflight == 1
MaxAdds == 2
MaxTime == 2
MaxIterations == 501
MaxItems == 4
MaxList == 2
MaxPasses == 2
ProjectIds == {"p1", "p2"}
Titles == {"A"}
DedupTitles == {"A", "B"}

\* ---- program constants ----
KEEP_RUNS == 3
checkInterval == 1000
AUTH_RECOVERY == 300000
AUTH_POLL_INTERVAL == 2000
SETTLE_DELAY == 3000
STABILITY_THRESHOLD == 5
NULL == 0

VARIABLES
  pc,                     \* position of runWatchMode
  shutdownRequested,      \* orchestrator.ts: let shutdownRequested
  scanCount,              \* runWatchMode: let scanCount
  failure,                \* the error being handled by the catch block ("none": no error)
  buffer,                 \* SupabaseWriter.buffer
  flushTimer,             \* SupabaseWriter.flushTimer is non-null
  currentRunId,           \* SupabaseWriter.currentRunId
  flushSucceeded,         \* SupabaseWriter.flushSucceeded
  flushAttempted,         \* SupabaseWriter.flushAttempted
  mainRows,               \* rows of the upsert the pass is awaiting
  inflight,               \* rows of the upserts sent by timer flushes, unanswered
  runs,                   \* table runs
  projects,               \* table projects
  finalFlush,             \* history: outcome of the flush completeRun made in this pass
  foundItems,             \* history: runSingleScan has passed a project to addProjectToAll in this pass
  currentProjectIds,      \* runSingleScan: the ids passed to addProjectToAll in this pass
  wBuffer,                \* ProjectWriter.buffer
  added,                  \* history: the records passed to addProject, in order
  sleepPc,                \* sleep(): "idle" not called, "wait" awaiting its timeout, "done" returned
  sleepMs,                \* sleep(): the argument ms
  elapsed,                \* sleep(): let elapsed
  remaining,              \* time left until the timeout sleep() awaits fires
  waited,                 \* history: time passed since sleep() was called
  late,                   \* history: time passed in sleep() since the flag was set
  authPc,                 \* position of ensureAuthenticated
  dateNow,                \* Date.now(), milliseconds since ensureAuthenticated was called
  startTime,              \* waitForAuthentication: const startTime
  flipAt,                 \* the page: the time from which it shows the sidebar (-1: never)
  detectCost,             \* the page: how long detectAuthState takes when it finds no sidebar
  authResult,             \* how ensureAuthenticated ended ("none": it has not)
  sawAuthenticated,       \* history: a detectAuthState call returned AUTHENTICATED
  scrollPc,               \* position of the scroll function: "idle", "initial", "box", "loop", "done"
  scrollFn,               \* which of the scroll functions was called ("none": none)
  stabilityThreshold,     \* const stabilityThreshold
  previousCount,          \* let previousCount
  stableIterations,       \* let stableIterations
  scrollAttempts,         \* let scrollAttempts (history where the function has no such variable)
  script,                 \* the page: the counts it shows at the scroll iterations (<<>>: any)
  scrollResult,           \* the value returned: <<n>>, or <<>> for none
  extractPc,              \* position of the extraction function: "idle", "item", "pause", "done", "thrown"
  extractFn,              \* which extraction function was called ("none": none)
  itemCount,              \* const count
  itemIndex,              \* let i
  extracted,              \* let extracted
  failed,                 \* let failed
  outcome,                \* history: what became of the items visited, in order
  pageList,               \* the page: the items of its project list, in order
  previousProjectIds,     \* runWatchMode: let previousProjectIds
  scanResult,             \* the ScanResult runSingleScan returned last
  unchangedList,           \* history: the list is the one scanned by the last pass that ran to its end
  baselineTotal,          \* history: totalProjects of that pass
  backToBack,             \* history: the last scan ran on the list of the baseline
  scansDone,              \* history: number of scans returned
  supabaseUp,             \* the store: Supabase answers requests without error
  localFile,              \* the disk: the projects of the local JSON file, by id
  wTimer,                  \* ProjectWriter.flushTimer is non-null
  orchPc,                 \* position of runWatchMode of orchestrator.ts
  pollTimer,              \* TouchQueueProcessor.pollTimer is set
  isProcessing,           \* TouchQueueProcessor.isProcessing
  queuePc,                \* position of processQueue
  requests,               \* requests of the fetched batch still to process
  queueResult,            \* the QueueProcessResult of the processQueue in progress
  skipped,                \* the last call of processQueue returned at 'Already processing'
  detectPc,               \* position of detectAuthState
  pageUrl,                \* page.url(), as the parts that the patterns are matched against
  visibleSidebar,         \* the sidebar selectors that become visible on the page
  visibleLogin,           \* the login indicators that are visible on the page
  authState,              \* what detectAuthState returned
  labelPc,                \* position of the extraction of one item's title
  labelFn,                \* "popup": extractProjectsFromPopup, "hover": extractProjectData
  fullTitle,              \* length of the tooltip text, 0 if none
  titleAttr,              \* length of the title attribute, 0 if none
  innerText,              \* length of the inline text, 0 if none
  slugMatch,              \* the id matches /g-p-[a-z0-9]+-(.+)$/
  titleFrom,              \* the candidate the title was taken from
  tClock,                 \* the time, in ms
  timeouts,               \* the timeouts of setTimeout that have neither fired nor been cleared
  timerField,             \* this.flushTimer of a writer: the id of a timeout, or NULL
  timerIds,               \* the timeouts created so far
  timerAdds,              \* the calls of addProject so far
  timerBuffer,            \* the ids in the writer's buffer
  headPc,                 \* position of runWatchMode in a pass
  pageState,              \* let page: "null", "alive" or "dead" (evaluate would throw)
  forceHeadfulDueToAuth,  \* runWatchMode: let forceHeadfulDueToAuth
  optionsHeadful,         \* options.headful
  existingSession,        \* hasExistingSession(): the profile has a Cookies file
  launchMode,             \* the mode of the last launchBrowser: "none", "headful", "headless"
  launches,               \* the calls of launchBrowser so far
  lastOutcome,            \* how the last pass ended: "none", "ok", "auth", "browser", "other"
  authFailedSince,        \* a pass failed on authentication and none has succeeded since
  outputIsDefault,        \* options.output is CONFIG.DEFAULT_OUTPUT_FILE
  defaultFile,            \* the projects of the file at CONFIG.DEFAULT_OUTPUT_FILE when it is
                          \* not the file of the local writer
  syncFailed,             \* syncFromLocalStorage logged 'Failed to sync missing projects'
  nClock,                 \* Date.now(), in ms
  hasChannels,            \* a notification channel is enabled
  lastNotificationTime,   \* NotificationRateLimiter.lastNotificationTime, by event
  notifyPc,               \* position of notify
  notifyEvent,            \* the event of the last call of notify
  notifyResult,           \* what the last call of notify returned
  notifyCalls,            \* the calls of notify so far
  sentLog,                \* the notifications that a channel has sent: event and time
  fileBuffer,             \* ProjectWriter.buffer: the ids of its records
  fileTimer,              \* ProjectWriter.flushTimer is set
  flushes,                \* the calls of ProjectWriter.flush: position and storage
  tempFile,               \* the content of <outputPath>.tmp, or Absent
  outputFile,             \* the content of the file at outputPath, or Absent
  lastStorage,            \* history: the storage of the flush that began last
  writerClosed            \* ProjectWriter.close was called

schedVars == <<pc, shutdownRequested, scanCount, failure>>
writerVars == <<buffer, flushTimer, currentRunId, flushSucceeded, flushAttempted, mainRows, inflight>>
dbVars == <<runs, projects>>
dedupVars == <<wBuffer, added>>
sleepVars == <<sleepPc, sleepMs, elapsed, remaining, waited, late>>
authVars == <<authPc, dateNow, startTime, flipAt, detectCost, authResult, sawAuthenticated>>
scrollVars == <<scrollPc, scrollFn, stabilityThreshold, previousCount, stableIterations,
                scrollAttempts, script, scrollResult>>
extractVars == <<extractPc, extractFn, itemCount, itemIndex, extracted, failed, outcome>>
scanVars == <<pageList, previousProjectIds, scanResult, unchangedList, baselineTotal,
              backToBack, scansDone>>
backendVars == <<supabaseUp, localFile, wTimer>>
touchVars == <<orchPc, pollTimer, isProcessing, queuePc, requests, queueResult, skipped>>
detectVars == <<detectPc, pageUrl, visibleSidebar, visibleLogin, authState>>
labelVars == <<labelPc, labelFn, fullTitle, titleAttr, innerText, slugMatch, titleFrom>>
timerVars == <<tClock, timeouts, timerField, timerIds, timerAdds, timerBuffer>>
headVars == <<headPc, pageState, forceHeadfulDueToAuth, optionsHeadful, existingSession,
              launchMode, launches, lastOutcome, authFailedSince>>
syncVars == <<outputIsDefault, defaultFile, syncFailed>>
notifyVars == <<nClock, hasChannels, lastNotificationTime, notifyPc, notifyEvent, notifyResult,
                notifyCalls, sentLog>>
fileVars == <<fileBuffer, fileTimer, flushes, tempFile, outputFile, lastStorage, writerClosed>>
afterNotify == <<fileVars>>
afterSync == <<notifyVars, afterNotify>>
afterHead == <<syncVars, afterSync>>
afterTimer == <<headVars, afterHead>>
afterLabel == <<timerVars, afterTimer>>
afterDetect == <<labelVars, afterLabel>>
afterTouch == <<detectVars, afterDetect>>
afterBackends == <<touchVars, afterTouch>>
moreVars == <<scanVars, backendVars, afterBackends>>
scanKept == <<pageList, scanResult, unchangedList, baselineTotal, backToBack, scansDone>>
passEndVars == <<sleepVars, authVars, scrollVars, extractVars, scanKept, backendVars, afterBackends>>
unitVars == <<sleepVars, authVars, scrollVars, extractVars, moreVars>>
vars == <<schedVars, writerVars, dbVars, finalFlush, foundItems, currentProjectIds, dedupVars, unitVars>>

Failures == {"auth", "browser", "other"}

\* the runs an earlier process left in the store, and the tick of pass n
PriorRuns == KEEP_RUNS
Clock(n) == PriorRuns + n
NoRows == <<>>

\* ---- pure helpers ----

\* extractProjectsFromPopup: the record built for an observed item
ProjectRecord(id, title, now) ==
  [id |-> id, title |-> title, firstSeenAt |-> now, lastConfirmedAt |-> now]

\* SupabaseWriter.addProject: this.buffer.set(project.id, project)
SupabaseAddProject(buf, project) ==
  [p \in (DOMAIN buf) \cup {project.id} |-> IF p = project.id THEN project ELSE buf[p]]

\* ProjectWriter.addProject: an id already buffered keeps its firstSeenAt and takes
\* the other fields of the new record
WriterAddProject(buf, project) ==
  [p \in (DOMAIN buf) \cup {project.id} |->
     IF p # project.id THEN buf[p]
     ELSE IF p \in DOMAIN buf
       THEN [project EXCEPT !.firstSeenAt = buf[p].firstSeenAt]
       ELSE project]

toSupabaseRow(project, runId) ==
  [id |-> project.id,
   title |-> project.title,
   first_seen_at |-> project.firstSeenAt,
   last_confirmed_at |-> project.lastConfirmedAt,
   run_id |-> runId,
   last_confirmed_run_id |-> runId]

\* flush: const rows = projects.map(toSupabaseRow)
FlushRows(buf, runId) == [p \in DOMAIN buf |-> toSupabaseRow(buf[p], runId)]

\* upsert(rows, {onConflict: 'id', ignoreDuplicates: false}): every column of a
\* conflicting row is overwritten
Upsert(tbl, rows) ==
  [p \in (DOMAIN tbl) \cup (DOMAIN rows) |-> IF p \in DOMAIN rows THEN rows[p] ELSE tbl[p]]

\* run_id and last_confirmed_run_id REFERENCES runs(id)
ForeignKeysHold(rs, rows) ==
  \A p \in DOMAIN rows :
    /\ rows[p].run_id = NULL \/ rows[p].run_id \in DOMAIN rs
    /\ rows[p].last_confirmed_run_id = NULL \/ rows[p].last_confirmed_run_id \in DOMAIN rs

RunsWithStatus(rs, s) == {r \in DOMAIN rs : rs[r].status = s}

\* SELECT id FROM runs WHERE status = 'completed' ORDER BY completed_at DESC LIMIT k
RecentCompleted(rs, k) ==
  {r \in RunsWithStatus(rs, "completed") :
     Cardinality({q \in RunsWithStatus(rs, "completed") :
                    rs[q].completed_at > rs[r].completed_at}) < k}

Restrict(f, S) == [x \in S |-> f[x]]


\* ---- SQL: safe_cleanup_old_runs(keep_count) ----

\* IF v_kept_run_ids IS NULL OR array_length(v_kept_run_ids, 1) < keep_count THEN RETURN
CleanupReturnsEarly(rs, k) == Cardinality(RecentCompleted(rs, k)) < k

\* variant: the projects of the oldest kept run are deleted too
SafeCleanupProjectsKeepsOneLess(rs, tbl, k) ==
  IF CleanupReturnsEarly(rs, k) THEN tbl
  ELSE Restrict(tbl, {p \in DOMAIN tbl :
                        \/ tbl[p].last_confirmed_run_id = NULL
                        \/ tbl[p].last_confirmed_run_id \in RecentCompleted(rs, k - 1)})

\* DELETE FROM projects WHERE last_confirmed_run_id IS NOT NULL
\*   AND last_confirmed_run_id != ALL(v_kept_run_ids)
SafeCleanupProjects(rs, tbl, k) ==
  IF CleanupReturnsEarly(rs, k) THEN tbl
  ELSE Restrict(tbl, {p \in DOMAIN tbl :
                        \/ tbl[p].last_confirmed_run_id = NULL
                        \/ tbl[p].last_confirmed_run_id \in RecentCompleted(rs, k)})

\* variant: no run row is deleted
SafeCleanupRunsKeepsAll(rs, k, cutoff) == rs

\* DELETE FROM runs WHERE status = 'completed' AND id != ALL(v_kept_run_ids);
\* DELETE FROM runs WHERE status = 'failed' AND started_at < now() - interval '7 days'
\* (cutoff is the clock value that lies 7 days before now)
SafeCleanupRuns(rs, k, cutoff) ==
  IF CleanupReturnsEarly(rs, k) THEN rs
  ELSE Restrict(rs, {r \in DOMAIN rs :
                       /\ ~(rs[r].status = "completed" /\ r \notin RecentCompleted(rs, k))
                       /\ ~(rs[r].status = "failed" /\ rs[r].started_at < cutoff)})

\* ---- legacyCleanupOldRuns ----

\* runs.slice(keepCount) of the completed runs ordered by completed_at descending
LegacyRunsToDelete(rs, k) == RunsWithStatus(rs, "completed") \ RecentCompleted(rs, k)

\* variant: .not('last_confirmed_run_id', 'in', the kept ids)
LegacyCleanupProjectsNotInKept(rs, tbl, k) ==
  Restrict(tbl, {p \in DOMAIN tbl : tbl[p].last_confirmed_run_id \in RecentCompleted(rs, k)})

\* .delete().in('last_confirmed_run_id', idsToDelete)
LegacyCleanupProjects(rs, tbl, k) ==
  Restrict(tbl, {p \in DOMAIN tbl :
                   tbl[p].last_confirmed_run_id \notin LegacyRunsToDelete(rs, k)})

\* .delete().in('id', idsToDelete)
LegacyCleanupRuns(rs, k) == Restrict(rs, (DOMAIN rs) \ LegacyRunsToDelete(rs, k))

CleanupModes ==
  {"safe",                \* rpc safe_cleanup_old_runs answered
   "rpcThrows",           \* the rpc call threw: caught, logged
   "legacy",              \* rpc error, legacy cleanup ran to its end
   "legacyFetchError",    \* rpc error, legacy: select of runs failed
   "legacyProjectsError", \* rpc error, legacy: delete of projects failed
   "legacyRunsError"}     \* rpc error, legacy: delete of runs failed

\* variant: a cleanup that failed leaves only the rows that no run confirmed
CleanedProjectsLostOnError(mode, rs, tbl) ==
  CASE mode = "safe" -> SafeCleanupProjects(rs, tbl, KEEP_RUNS)
    [] mode \in {"legacy", "legacyRunsError"} -> LegacyCleanupProjects(rs, tbl, KEEP_RUNS)
    [] OTHER -> Restrict(tbl, {p \in DOMAIN tbl : tbl[p].last_confirmed_run_id = NULL})

CleanedProjects(mode, rs, tbl) ==
  CASE mode = "safe" -> SafeCleanupProjects(rs, tbl, KEEP_RUNS)
    [] mode \in {"legacy", "legacyRunsError"} -> LegacyCleanupProjects(rs, tbl, KEEP_RUNS)
    [] OTHER -> tbl

CleanedRuns(mode, rs, cutoff) ==
  CASE mode = "safe" -> SafeCleanupRuns(rs, KEEP_RUNS, cutoff)
    [] mode = "legacy" -> LegacyCleanupRuns(rs, KEEP_RUNS)
    [] OTHER -> rs

\* ---- run rows ----

\* insert({status: 'running'})
NewRun(now) == [status |-> "running", started_at |-> now, completed_at |-> NULL]

\* promote_run_to_current / the fallback update: status = 'completed', completed_at = now
MarkCompleted(rs, r, now) ==
  IF r \in DOMAIN rs
    THEN [rs EXCEPT ![r] = [@ EXCEPT !.status = "completed", !.completed_at = now]]
    ELSE rs

\* variant: the update writes 'completed'
MarkFailedAsCompleted(rs, r, now) == MarkCompleted(rs, r, now)

\* failRun: update({status: 'failed', completed_at: now}).eq('id', currentRunId)
MarkFailed(rs, r, now) ==
  IF r \in DOMAIN rs
    THEN [rs EXCEPT ![r] = [@ EXCEPT !.status = "failed", !.completed_at = now]]
    ELSE rs

\* variant: the run is marked failed only when the flush succeeded
FailRunMarkIfFlushed(rs, r, now, flushed) == IF flushed THEN MarkFailed(rs, r, now) ELSE rs

\* failRun: the flush sits in a try/catch and its outcome is not read; the update
\* to 'failed' follows in both cases
FailRunMark(rs, r, now, flushed) == MarkFailed(rs, r, now)

\* variant: the gate reads flushAttempted negated
FlushFailedGateNotAttempted(succeeded, attempted) == ~succeeded /\ ~attempted

FlushFailedGateUnlessWritten(succeeded, attempted) == ~succeeded \/ ~attempted

\* completeRun: if (!this.flushSucceeded && this.flushAttempted) -> failRun
FlushFailedGate(succeeded, attempted) == ~succeeded /\ attempted

\* the ScanResult before any scan
NoScan ==
  [totalProjects |-> 0, extracted |-> 0, failed |-> 0, newProjects |-> 0,
   unchangedProjects |-> 0, projectIds |-> {}]

\* ---- initial state ----

\* a row written by syncFromLocalStorage in an earlier process: both run columns NULL
SyncedRow(id) ==
  [id |-> id, title |-> "A", first_seen_at |-> 1, last_confirmed_at |-> 1,
   run_id |-> NULL, last_confirmed_run_id |-> NULL]

\* the store an earlier process left: PriorRuns completed runs, p1 observed by the
\* first of them only, p2 by the first two, p0 recovered from the local file
PriorRunRows == [r \in 1..PriorRuns |-> [status |-> "completed", started_at |-> r, completed_at |-> r]]
PriorProjectRows ==
  [p \in {"p0", "p1", "p2"} |->
     CASE p = "p0" -> SyncedRow(p)
       [] p = "p1" -> toSupabaseRow(ProjectRecord(p, "A", 1), 1)
       [] p = "p2" -> toSupabaseRow(ProjectRecord(p, "A", 2), 2)]

InitAt(at) ==
  /\ pc = at
  /\ shutdownRequested = FALSE
  /\ scanCount = 0
  /\ failure = "none"
  /\ buffer = NoRows
  /\ flushTimer = FALSE
  /\ currentRunId = NULL
  /\ flushSucceeded = FALSE
  /\ flushAttempted = FALSE
  /\ mainRows = NoRows
  /\ inflight = <<>>
  /\ finalFlush = "none"
  /\ foundItems = FALSE
  /\ currentProjectIds = {}
  /\ wBuffer = NoRows
  /\ added = <<>>
  /\ sleepPc = "idle"
  /\ sleepMs = 0
  /\ elapsed = 0
  /\ remaining = 0
  /\ waited = 0
  /\ late = 0
  /\ authPc = "idle"
  /\ dateNow = 0
  /\ startTime = 0
  /\ flipAt = -1
  /\ detectCost = 0
  /\ authResult = "none"
  /\ sawAuthenticated = FALSE
  /\ scrollPc = "idle"
  /\ scrollFn = "none"
  /\ stabilityThreshold = 0
  /\ previousCount = 0
  /\ stableIterations = 0
  /\ scrollAttempts = 0
  /\ script = <<>>
  /\ scrollResult = <<>>
  /\ extractPc = "idle"
  /\ extractFn = "none"
  /\ itemCount = 0
  /\ itemIndex = 0
  /\ extracted = 0
  /\ failed = 0
  /\ outcome = <<>>
  /\ pageList = <<>>
  /\ previousProjectIds = {}
  /\ scanResult = NoScan
  /\ unchangedList = FALSE
  /\ baselineTotal = 0
  /\ backToBack = FALSE
  /\ scansDone = 0
  /\ wTimer = FALSE
  /\ orchPc = "loop"
  /\ pollTimer = FALSE
  /\ isProcessing = FALSE
  /\ queuePc = "idle"
  /\ requests = 0
  /\ queueResult = [processed |-> 0, succeeded |-> 0, failed |-> 0]
  /\ skipped = FALSE
  /\ detectPc = "idle"
  /\ pageUrl = <<>>
  /\ visibleSidebar = {}
  /\ visibleLogin = {}
  /\ authState = "none"
  /\ labelPc = "idle"
  /\ labelFn = "popup"
  /\ fullTitle = 0
  /\ titleAttr = 0
  /\ innerText = 0
  /\ slugMatch = FALSE
  /\ titleFrom = "none"
  /\ tClock = 0
  /\ timeouts = {}
  /\ timerField = NULL
  /\ timerIds = 0
  /\ timerAdds = 0
  /\ timerBuffer = {}
  /\ headPc = "loop"
  /\ pageState = "null"
  /\ forceHeadfulDueToAuth = FALSE
  /\ launchMode = "none"
  /\ launches = 0
  /\ lastOutcome = "none"
  /\ authFailedSince = FALSE
  /\ syncFailed = FALSE
  /\ notifyPc = "idle"
  /\ notifyEvent = "none"
  /\ notifyResult = "none"
  /\ notifyCalls = 0
  /\ sentLog = {}
  /\ fileBuffer = {}
  /\ fileTimer = FALSE
  /\ flushes = <<>>
  /\ tempFile = [exists |-> FALSE, projects |-> {}]
  /\ outputFile = [exists |-> FALSE, projects |-> {}]
  /\ lastStorage = {}
  /\ writerClosed = FALSE
  /\ \/ runs = NoRows /\ projects = NoRows
     \/ runs = PriorRunRows /\ projects = PriorProjectRows

\* ---- the notifier: its constants and its state when created ----

DEFAULT_COOLDOWN_MINUTES == 30

\* cooldownMs: cooldownMinutes * 60 * 1000
cooldownMs == DEFAULT_COOLDOWN_MINUTES * 60 * 1000

NotificationEvents == {"auth_failure", "scan_complete"}

\* createNotifier: a limiter with an empty map; Date.now() is past one cooldown
NotifierCreated(channels) ==
  /\ nClock = cooldownMs
  /\ hasChannels = channels
  /\ lastNotificationTime = [event \in NotificationEvents |-> 0]

\* runWatchMode at the head of its loop, initializeBackends done, nothing on disk
Init ==
  /\ InitAt("loop")
  /\ supabaseUp = TRUE
  /\ localFile = NoRows
  /\ optionsHeadful = FALSE
  /\ existingSession = TRUE
  /\ outputIsDefault = TRUE
  /\ defaultFile = NoRows
  /\ NotifierCreated(TRUE)


\* ---- SupabaseWriter.flush, in its two halves ----

\* the part of flush() after the answer of the upsert: on success the buffer is
\* cleared, on failure it is kept
Landed(rows, ok) ==
  /\ projects' = IF ok THEN Upsert(projects, rows) ELSE projects
  /\ buffer' = IF ok THEN NoRows ELSE buffer
  /\ flushSucceeded' = ok

\* the upsert can be answered with success only if the foreign keys hold
Answer(rows, ok) == ok => ForeignKeysHold(runs, rows)

\* ---- runWatchMode: what follows failRun / completeRun in the loop body ----

\* variant: the loop is left after the pass
EndOfPassLeavesLoop ==
  /\ pc' = "stopped"
  /\ failure' = "none"

\* the try block ran to its end, or the catch block did: on to the sleep
EndOfPass ==
  /\ pc' = "sleep"
  /\ failure' = "none"

\* ---- actions ----

\* variant: the handler abandons the pass in progress
RequestShutdownPreempts ==
  /\ ~shutdownRequested
  /\ pc # "stopped"
  /\ shutdownRequested' = TRUE
  /\ pc' = IF pc \in {"closeFlush", "stopped"} THEN pc ELSE "loop"
  /\ UNCHANGED <<scanCount, failure, writerVars, dbVars, finalFlush, foundItems, currentProjectIds, dedupVars, unitVars>>

\* SIGTERM / SIGINT handler
RequestShutdown ==
  /\ ~shutdownRequested
  /\ UNCHANGED <<finalFlush, foundItems, currentProjectIds, dedupVars, unitVars>>
  /\ pc # "stopped"
  /\ shutdownRequested' = TRUE
  /\ UNCHANGED <<pc, scanCount, failure, writerVars, dbVars>>

\* while (!isShutdownRequested()) { scanCount++; ensureBrowser(); startRun(backends); ...
\* session: ensureBrowser returned a page (else it threw an error of the given kind);
\* inserted: the insert into runs succeeded
PassStartBody(session, inserted, kind) ==
  /\ pc = "loop"
  /\ finalFlush' = "none"
  /\ foundItems' = FALSE
  /\ UNCHANGED <<dedupVars, unitVars>>
  /\ ~shutdownRequested
  /\ scanCount < MaxScans
  /\ scanCount' = scanCount + 1
  /\ UNCHANGED <<shutdownRequested, buffer, flushTimer, mainRows,
                 inflight, projects>>
  /\ IF session
       THEN /\ flushSucceeded' = FALSE
            /\ flushAttempted' = FALSE
            /\ IF inserted
                 THEN /\ runs' = Upsert(runs, [r \in {Clock(scanCount')} |->
                                                   NewRun(Clock(scanCount'))])
                      /\ currentRunId' = Clock(scanCount')
                      /\ pc' = "scan"
                      /\ failure' = "none"
                 ELSE /\ pc' = "failRun"
                      /\ failure' = "other"
                      /\ UNCHANGED <<runs, currentRunId>>
       ELSE /\ pc' = "failRun"
            /\ failure' = kind
            /\ UNCHANGED <<flushSucceeded, flushAttempted, runs, currentRunId>>

PassStart(session, inserted, kind) == PassStartBody(session, inserted, kind) /\ UNCHANGED currentProjectIds

\* addProjectToAll -> SupabaseWriter.addProject: buffer.set, scheduleFlush
AddProjectBody(id, title) ==
  /\ pc = "scan"
  /\ foundItems' = TRUE
  /\ UNCHANGED <<finalFlush, dedupVars, unitVars>>
  /\ buffer' = SupabaseAddProject(buffer, ProjectRecord(id, title, Clock(scanCount)))
  /\ flushTimer' = TRUE
  /\ UNCHANGED <<schedVars, currentRunId, flushSucceeded, flushAttempted, mainRows, inflight,
                 dbVars>>

AddProject(id, title) == AddProjectBody(id, title) /\ UNCHANGED currentProjectIds

\* runSingleScan throws (auth recovery timeout, dead page, navigation or extraction error)
ScanFail(kind) ==
  /\ pc = "scan"
  /\ UNCHANGED <<finalFlush, foundItems, currentProjectIds, dedupVars, unitVars>>
  /\ pc' = "failRun"
  /\ failure' = kind
  /\ UNCHANGED <<shutdownRequested, scanCount, writerVars, dbVars>>

\* runSingleScan returns; completeRun up to the await of the final flush's upsert
CompleteRunBegin ==
  /\ pc = "scan"
  /\ finalFlush' = IF DOMAIN buffer = {} THEN "ok" ELSE finalFlush
  /\ UNCHANGED <<foundItems, currentProjectIds, dedupVars, unitVars>>
  /\ flushTimer' = FALSE
  /\ IF DOMAIN buffer = {}
       THEN /\ flushSucceeded' = TRUE
            /\ pc' = IF FlushFailedGate(flushSucceeded', flushAttempted) THEN "failRun"
                     ELSE "promote"
            /\ UNCHANGED <<flushAttempted, mainRows>>
       ELSE /\ flushAttempted' = TRUE
            /\ mainRows' = FlushRows(buffer, currentRunId)
            /\ pc' = "completeFlush"
            /\ UNCHANGED flushSucceeded
  /\ UNCHANGED <<shutdownRequested, scanCount, failure, buffer,
                 currentRunId, inflight, dbVars>>

\* completeRun: the final flush's upsert is answered, then the atomicity gate
CompleteFlushEnd(ok) ==
  /\ pc = "completeFlush"
  /\ finalFlush' = IF ok THEN "ok" ELSE "failed"
  /\ UNCHANGED <<foundItems, currentProjectIds, dedupVars, unitVars>>
  /\ Answer(mainRows, ok)
  /\ Landed(mainRows, ok)
  /\ mainRows' = NoRows
  /\ pc' = IF FlushFailedGate(flushSucceeded', flushAttempted) THEN "failRun" ELSE "promote"
  /\ UNCHANGED <<shutdownRequested, scanCount, failure,
                 flushTimer, currentRunId, flushAttempted, inflight, runs>>

\* completeRun: rpc promote_run_to_current, on error the direct update, on its error throw
PromoteRun(promoted, updated) ==
  /\ pc = "promote"
  /\ UNCHANGED <<finalFlush, foundItems, currentProjectIds, dedupVars, unitVars>>
  /\ IF promoted \/ updated
       THEN /\ runs' = MarkCompleted(runs, currentRunId, Clock(scanCount))
            /\ pc' = "cleanup"
            /\ UNCHANGED failure
       ELSE /\ pc' = "failRun"
            /\ failure' = "other"
            /\ UNCHANGED runs
  /\ UNCHANGED <<shutdownRequested, scanCount, writerVars,
                 projects>>

\* completeRun: safeCleanupOldRuns, currentRunId = null; then the rest of the try block
CleanupBody(mode, cutoff) ==
  /\ pc = "cleanup"
  /\ UNCHANGED <<finalFlush, foundItems, currentProjectIds, dedupVars, passEndVars>>
  /\ projects' = CleanedProjects(mode, runs, projects)
  /\ runs' = CleanedRuns(mode, runs, cutoff)
  /\ currentRunId' = NULL
  /\ EndOfPass
  /\ UNCHANGED <<shutdownRequested, scanCount, buffer, flushTimer, flushSucceeded,
                 flushAttempted, mainRows, inflight>>

Cleanup(mode, cutoff) == CleanupBody(mode, cutoff) /\ UNCHANGED previousProjectIds

\* failRun up to the await of its flush's upsert (called by the catch block, or by
\* completeRun when the gate found the flush failed)
FailRunBeginBody ==
  /\ pc = "failRun"
  /\ UNCHANGED <<finalFlush, foundItems, currentProjectIds, dedupVars, passEndVars>>
  /\ IF currentRunId = NULL
       THEN /\ EndOfPass
            /\ UNCHANGED <<writerVars, dbVars>>
       ELSE IF DOMAIN buffer = {}
         THEN /\ runs' = MarkFailed(runs, currentRunId, Clock(scanCount))
              /\ currentRunId' = NULL
              /\ EndOfPass
              /\ UNCHANGED <<buffer, flushTimer, flushSucceeded, flushAttempted, mainRows,
                             inflight, projects>>
         ELSE /\ flushTimer' = FALSE
              /\ flushAttempted' = TRUE
              /\ mainRows' = FlushRows(buffer, currentRunId)
              /\ pc' = "failFlush"
              /\ UNCHANGED <<failure, buffer, currentRunId,
                             flushSucceeded, inflight, dbVars>>
  /\ UNCHANGED <<shutdownRequested, scanCount>>

FailRunBegin == FailRunBeginBody /\ UNCHANGED previousProjectIds

\* failRun: its flush's upsert is answered; the run is marked failed either way
FailFlushEndBody(ok) ==
  /\ pc = "failFlush"
  /\ UNCHANGED <<finalFlush, foundItems, currentProjectIds, dedupVars, passEndVars>>
  /\ Answer(mainRows, ok)
  /\ Landed(mainRows, ok)
  /\ mainRows' = NoRows
  /\ runs' = FailRunMark(runs, currentRunId, Clock(scanCount), ok)
  /\ currentRunId' = NULL
  /\ EndOfPass
  /\ UNCHANGED <<shutdownRequested, scanCount, flushTimer, flushAttempted, inflight>>

FailFlushEnd(ok) == FailFlushEndBody(ok) /\ UNCHANGED previousProjectIds

\* sleep(intervalMs, isShutdownRequested) returns
Sleep ==
  /\ pc = "sleep"
  /\ UNCHANGED <<finalFlush, foundItems, currentProjectIds, dedupVars, unitVars>>
  /\ pc' = "loop"
  /\ UNCHANGED <<shutdownRequested, scanCount, failure,
                 writerVars, dbVars>>

\* the loop exits; finally closeBackends -> close() -> flush()
CloseBegin ==
  /\ pc = "loop"
  /\ UNCHANGED <<finalFlush, foundItems, currentProjectIds, dedupVars, unitVars>>
  /\ shutdownRequested
  /\ flushTimer' = FALSE
  /\ IF DOMAIN buffer = {}
       THEN /\ flushSucceeded' = TRUE
            /\ pc' = "stopped"
            /\ UNCHANGED <<flushAttempted, mainRows>>
       ELSE /\ flushAttempted' = TRUE
            /\ mainRows' = FlushRows(buffer, currentRunId)
            /\ pc' = "closeFlush"
            /\ UNCHANGED flushSucceeded
  /\ UNCHANGED <<shutdownRequested, scanCount, failure, buffer,
                 currentRunId, inflight, dbVars>>

CloseFlushEnd(ok) ==
  /\ pc = "closeFlush"
  /\ UNCHANGED <<finalFlush, foundItems, currentProjectIds, dedupVars, unitVars>>
  /\ Answer(mainRows, ok)
  /\ Landed(mainRows, ok)
  /\ mainRows' = NoRows
  /\ pc' = "stopped"
  /\ UNCHANGED <<shutdownRequested, scanCount, failure,
                 flushTimer, currentRunId, flushAttempted, inflight, runs>>

\* the debounce timer fires: flush() up to the await of its upsert
TimerFlushBegin ==
  /\ flushTimer
  /\ UNCHANGED <<finalFlush, foundItems, currentProjectIds, dedupVars, unitVars>>
  /\ Len(inflight) < MaxInflight
  /\ flushTimer' = FALSE
  /\ IF DOMAIN buffer = {}
       THEN /\ flushSucceeded' = TRUE
            /\ UNCHANGED <<flushAttempted, inflight>>
       ELSE /\ flushAttempted' = TRUE
            /\ inflight' = Append(inflight, FlushRows(buffer, currentRunId))
            /\ UNCHANGED flushSucceeded
  /\ UNCHANGED <<schedVars, buffer, currentRunId, mainRows, dbVars>>

\* the upsert of a timer flush is answered
TimerFlushEnd(i, ok) ==
  /\ i \in DOMAIN inflight
  /\ UNCHANGED <<finalFlush, foundItems, currentProjectIds, dedupVars, unitVars>>
  /\ Answer(inflight[i], ok)
  /\ Landed(inflight[i], ok)
  /\ inflight' = [j \in 1..(Len(inflight) - 1) |-> IF j < i THEN inflight[j] ELSE inflight[j + 1]]
  /\ UNCHANGED <<schedVars, flushTimer, currentRunId, flushAttempted, mainRows, runs>>

Next ==
  \/ RequestShutdown
  \/ \E session \in BOOLEAN, inserted \in BOOLEAN, kind \in Failures :
       PassStart(session, inserted, kind)
  \/ \E id \in ProjectIds, title \in Titles : AddProject(id, title)
  \/ \E kind \in Failures : ScanFail(kind)
  \/ CompleteRunBegin
  \/ \E ok \in BOOLEAN : CompleteFlushEnd(ok)
  \/ \E promoted \in BOOLEAN, updated \in BOOLEAN : PromoteRun(promoted, updated)
  \/ \E mode \in CleanupModes, cutoff \in {0, Clock(scanCount)} : Cleanup(mode, cutoff)
  \/ FailRunBegin
  \/ \E ok \in BOOLEAN : FailFlushEnd(ok)
  \/ Sleep
  \/ CloseBegin
  \/ \E ok \in BOOLEAN : CloseFlushEnd(ok)
  \/ TimerFlushBegin
  \/ \E i \in 1..MaxInflight, ok \in BOOLEAN : TimerFlushEnd(i, ok)

Spec == Init /\ [][Next]_vars

\* ---- the watch loop together with the id sets of its delta: currentProjectIds
\* ---- of runSingleScan and previousProjectIds of runWatchMode ----

\* previousProjectIds = result.projectIds ends the try block; the catch block,
\* entered with an error of some kind, leaves the variable as it is
TrackedIds(kind, previous, current) == IF kind = "none" THEN current ELSE previous

\* what a step of completeRun or failRun does to previousProjectIds: when the
\* step is the last of the pass, the rest of the try block or of the catch block
PassEndTracks ==
  previousProjectIds' =
    IF pc' = "sleep" THEN TrackedIds(failure, previousProjectIds, currentProjectIds)
    ELSE previousProjectIds

\* startRun, then runSingleScan begins: const currentProjectIds = new Set()
PassStartTracked(session, inserted, kind) ==
  PassStartBody(session, inserted, kind) /\ currentProjectIds' = {}

\* addProjectToAll: currentProjectIds.add(project.id), then every backend's addProject
AddProjectTracked(id, title) ==
  AddProjectBody(id, title) /\ currentProjectIds' = currentProjectIds \cup {id}

CleanupTracked(mode, cutoff) == CleanupBody(mode, cutoff) /\ PassEndTracks

FailRunBeginTracked == FailRunBeginBody /\ PassEndTracks

FailFlushEndTracked(ok) == FailFlushEndBody(ok) /\ PassEndTracks

TrackNext ==
  \/ RequestShutdown
  \/ \E session \in BOOLEAN, inserted \in BOOLEAN, kind \in Failures :
       PassStartTracked(session, inserted, kind)
  \/ \E id \in ProjectIds, title \in Titles : AddProjectTracked(id, title)
  \/ \E kind \in Failures : ScanFail(kind)
  \/ CompleteRunBegin
  \/ \E ok \in BOOLEAN : CompleteFlushEnd(ok)
  \/ \E promoted \in BOOLEAN, updated \in BOOLEAN : PromoteRun(promoted, updated)
  \/ \E mode \in CleanupModes, cutoff \in {0, Clock(scanCount)} : CleanupTracked(mode, cutoff)
  \/ FailRunBeginTracked
  \/ \E ok \in BOOLEAN : FailFlushEndTracked(ok)
  \/ Sleep
  \/ CloseBegin
  \/ \E ok \in BOOLEAN : CloseFlushEnd(ok)
  \/ TimerFlushBegin
  \/ \E i \in 1..MaxInflight, ok \in BOOLEAN : TimerFlushEnd(i, ok)

TrackSpec == Init /\ [][TrackNext]_vars

\* ---- the watch loop with every awaited call answered in the end ----

\* the steps of runWatchMode itself: each await of the loop returns or throws (the
\* browser calls and the store calls carry timeouts)
MainThread ==
  \/ \E session \in BOOLEAN, inserted \in BOOLEAN, kind \in Failures :
       PassStart(session, inserted, kind)
  \/ \E kind \in Failures : ScanFail(kind)
  \/ CompleteRunBegin
  \/ \E ok \in BOOLEAN : CompleteFlushEnd(ok)
  \/ \E promoted \in BOOLEAN, updated \in BOOLEAN : PromoteRun(promoted, updated)
  \/ \E mode \in CleanupModes, cutoff \in {0, Clock(scanCount)} : Cleanup(mode, cutoff)
  \/ FailRunBegin
  \/ \E ok \in BOOLEAN : FailFlushEnd(ok)
  \/ Sleep
  \/ CloseBegin
  \/ \E ok \in BOOLEAN : CloseFlushEnd(ok)

\* the process starts on a store that holds nothing yet
FreshInit == Init /\ runs = NoRows

FairSpec == FreshInit /\ [][Next]_vars /\ WF_vars(MainThread)

\* ---- the watch loop when the store and the browser answer every call ----

HappyNext ==
  \/ \E kind \in Failures : PassStart(TRUE, TRUE, kind)
  \/ \E id \in ProjectIds, title \in Titles : AddProject(id, title)
  \/ CompleteRunBegin
  \/ CompleteFlushEnd(TRUE)
  \/ \E promoted \in BOOLEAN : PromoteRun(promoted, TRUE)
  \/ \E mode \in {"safe", "legacy"}, cutoff \in {0, Clock(scanCount)} : Cleanup(mode, cutoff)
  \/ Sleep
  \/ TimerFlushBegin
  \/ \E i \in 1..MaxInflight : TimerFlushEnd(i, TRUE)

HappySpec == Init /\ [][HappyNext]_vars

\* ---- sleep(ms, shouldStop), time in milliseconds ----

SleepDurations == {0, 500, 1000, 1500, 2500}
TimeSteps == {250, 1000}

Min(a, b) == IF a < b THEN a ELSE b

\* variant: one timeout for the whole of ms
SliceLengthWhole(ms, done) == ms - done

\* Math.min(checkInterval, ms - elapsed)
SliceLength(ms, done) == Min(checkInterval, ms - done)

\* while (elapsed < ms && !shouldStop())
SleepGoesOn(ms, done, stop) == done < ms /\ ~stop

loopVars == <<schedVars, writerVars, dbVars, finalFlush, foundItems, currentProjectIds, dedupVars>>

\* sleep(intervalMs, isShutdownRequested) is called (the loop calls it with the flag
\* unset) and runs to its first await
SleepCall(ms) ==
  /\ sleepPc = "idle"
  /\ ~shutdownRequested
  /\ sleepMs' = ms
  /\ elapsed' = 0
  /\ waited' = 0
  /\ late' = 0
  /\ IF SleepGoesOn(ms, 0, shutdownRequested)
       THEN sleepPc' = "wait" /\ remaining' = SliceLength(ms, 0)
       ELSE sleepPc' = "done" /\ remaining' = 0
  /\ UNCHANGED <<loopVars, authVars, scrollVars, extractVars, moreVars>>

\* time passes while the timeout is pending
TimePasses(dt) ==
  /\ sleepPc = "wait"
  /\ remaining > 0
  /\ remaining' = remaining - Min(dt, remaining)
  /\ waited' = waited + Min(dt, remaining)
  /\ late' = IF shutdownRequested THEN late + Min(dt, remaining) ELSE 0
  /\ UNCHANGED <<sleepPc, sleepMs, elapsed, loopVars, authVars, scrollVars, extractVars, moreVars>>

\* the timeout fires: elapsed += checkInterval, then the loop condition
SleepTimerFires ==
  /\ sleepPc = "wait"
  /\ remaining = 0
  /\ elapsed' = elapsed + checkInterval
  /\ IF SleepGoesOn(sleepMs, elapsed', shutdownRequested)
       THEN sleepPc' = "wait" /\ remaining' = SliceLength(sleepMs, elapsed')
       ELSE sleepPc' = "done" /\ remaining' = 0
  /\ UNCHANGED <<sleepMs, waited, late, loopVars, authVars, scrollVars, extractVars, moreVars>>

SleepNext ==
  \/ \E ms \in SleepDurations : SleepCall(ms)
  \/ \E dt \in TimeSteps : TimePasses(dt)
  \/ SleepTimerFires
  \/ RequestShutdown

SleepSpec == FreshInit /\ [][SleepNext]_vars

\* ---- ensureAuthenticated(page), time in milliseconds, on a page that stays alive ----

FlipTimes == {-1, 0, 1000, 4000, 7000}
DetectCosts == {0, 1500, 5000}
OtherStates == {"login_required", "unknown"}

\* the page shows the sidebar at time t
Flipped(t) == flipAt >= 0 /\ flipAt <= t

\* variant: the sidebar is never found
DetectStateBlind(t, other) == other

\* detectAuthState called at time t: AUTHENTICATED when the sidebar is visible before
\* the waits for it run out, else what the login indicators say
DetectState(t, other) == IF Flipped(t + detectCost) THEN "authenticated" ELSE other

\* the time at which that call returns
DetectEnd(t) ==
  IF Flipped(t) THEN t
  ELSE IF Flipped(t + detectCost) THEN flipAt
  ELSE t + detectCost

\* variant: an unknown state is let through
EnsureBranchSkipsUnknown(state) ==
  CASE state \in {"authenticated", "unknown"} -> "true"
    [] state \in {"login_required", "session_expired"} -> "recover"
    [] OTHER -> "false"

\* ensureAuthenticated: switch (authState)
EnsureBranch(state) ==
  CASE state = "authenticated" -> "true"
    [] state \in {"login_required", "session_expired", "unknown"} -> "recover"
    [] OTHER -> "false"

\* variant: the loop runs for twice the timeout
PollGoesOnTwice(t, start, timeoutMs) == t - start < 2 * timeoutMs

\* waitForAuthentication: while (Date.dateNow() - startTime < timeoutMs)
PollGoesOn(t, start, timeoutMs) == t - start < timeoutMs

notAuth == <<loopVars, sleepVars, scrollVars, extractVars, moreVars>>

\* ensureAuthenticated is called on a page
AuthCall(flip, cost) ==
  /\ authPc = "idle"
  /\ authPc' = "detect"
  /\ flipAt' = flip
  /\ detectCost' = cost
  /\ UNCHANGED <<dateNow, startTime, authResult, sawAuthenticated, notAuth>>

\* ensureAuthenticated: detectAuthState, then the switch
EnsureDetect(other) ==
  /\ authPc = "detect"
  /\ dateNow' = DetectEnd(dateNow)
  /\ sawAuthenticated' = (DetectState(dateNow, other) = "authenticated")
  /\ CASE EnsureBranch(DetectState(dateNow, other)) = "recover" ->
             authPc' = "reload" /\ authResult' = "none"
        [] OTHER ->
             authPc' = "done" /\ authResult' = EnsureBranch(DetectState(dateNow, other))
  /\ UNCHANGED <<startTime, flipAt, detectCost, notAuth>>

\* attemptAutoRecovery: page.reload and the settle delay, or reload throws (caught)
Reload(ok) ==
  /\ authPc = "reload"
  /\ authPc' = IF ok THEN "detectAuto" ELSE "front"
  /\ dateNow' = IF ok THEN dateNow + SETTLE_DELAY ELSE dateNow
  /\ UNCHANGED <<startTime, flipAt, detectCost, authResult, sawAuthenticated, notAuth>>

\* attemptAutoRecovery: detectAuthState after the reload
AutoDetect(other) ==
  /\ authPc = "detectAuto"
  /\ dateNow' = DetectEnd(dateNow)
  /\ sawAuthenticated' = (DetectState(dateNow, other) = "authenticated")
  /\ IF DetectState(dateNow, other) = "authenticated"
       THEN authPc' = "done" /\ authResult' = "true"
       ELSE authPc' = "front" /\ authResult' = "none"
  /\ UNCHANGED <<startTime, flipAt, detectCost, notAuth>>

\* recoverFromAuthExpiration: bringToFront, waitForAuthentication starts
BringToFront ==
  /\ authPc = "front"
  /\ authPc' = "poll"
  /\ startTime' = dateNow
  /\ UNCHANGED <<dateNow, flipAt, detectCost, authResult, sawAuthenticated, notAuth>>

\* waitForAuthentication: one turn of the loop (detectAuthState, waitForTimeout), or
\* the loop ends and recoverFromAuthExpiration throws
Poll(other) ==
  /\ authPc = "poll"
  /\ IF PollGoesOn(dateNow, startTime, AUTH_RECOVERY)
       THEN /\ sawAuthenticated' = (DetectState(dateNow, other) = "authenticated")
            /\ IF DetectState(dateNow, other) = "authenticated"
                 THEN /\ dateNow' = DetectEnd(dateNow)
                      /\ authPc' = "done"
                      /\ authResult' = "true"
                 ELSE /\ dateNow' = DetectEnd(dateNow) + AUTH_POLL_INTERVAL
                      /\ UNCHANGED <<authPc, authResult>>
       ELSE /\ authPc' = "done"
            /\ authResult' = "AuthRecoveryError"
            /\ UNCHANGED <<dateNow, sawAuthenticated>>
  /\ UNCHANGED <<startTime, flipAt, detectCost, notAuth>>

AuthNext ==
  \/ \E flip \in FlipTimes, cost \in DetectCosts : AuthCall(flip, cost)
  \/ \E other \in OtherStates : EnsureDetect(other)
  \/ \E ok \in BOOLEAN : Reload(ok)
  \/ \E other \in OtherStates : AutoDetect(other)
  \/ BringToFront
  \/ \E other \in OtherStates : Poll(other)

AuthSpec == FreshInit /\ [][AuthNext]_vars

\* ---- the scroll loops: scrollPopupUntilExhausted, scrollUntilExhausted (both
\* ---- versions) and scrollWithProgress, on a page whose item count is any
\* ---- sequence, or the sequence a simulation prescribes ----

\* the counts a page can show
Counts == {0, 10, 25, 40}
\* simulated count sequences, one count per scroll iteration; the last count stays
Scripts == {<<10, 25, 40, 40, 40>>, <<25, 10>>}
\* values of CONFIG.SCROLL.STABILITY_THRESHOLD
Thresholds == {3, STABILITY_THRESHOLD}
\* "popup": scrollPopupUntilExhausted; "sidebar": scrollUntilExhausted with the
\* initial count and the attempt limit; "scroller": scrollUntilExhausted of
\* scroller.ts; "progress": scrollWithProgress
ScrollFns == {"popup", "sidebar", "scroller", "progress"}
\* the functions that count once before the loop and have maxScrollAttempts
Limited == {"popup", "sidebar"}

\* const stabilityThreshold = 10 in the popup, CONFIG.SCROLL.STABILITY_THRESHOLD elsewhere
ThresholdOf(fn, configured) == IF fn = "popup" THEN 10 ELSE configured

\* const maxScrollAttempts
maxScrollAttempts(fn) == IF fn = "popup" THEN 500 ELSE 100

StableAfterNoIncrease(stable, previous, current) ==
  IF current - previous > 0 THEN 0 ELSE stable + 1

\* if (newItems === 0) stableIterations++ else stableIterations = 0
StableAfter(stable, previous, current) ==
  IF current - previous = 0 THEN stable + 1 ELSE 0

ScrollGoesOnOnceMore(fn, stable, attempts, threshold) ==
  /\ stable <= threshold
  /\ fn \in Limited => attempts < maxScrollAttempts(fn)

\* the condition of the while loop
ScrollGoesOn(fn, stable, attempts, threshold) ==
  /\ stable < threshold
  /\ fn \in Limited => attempts < maxScrollAttempts(fn)

\* what the function returns after the loop: previousCount, nothing from scrollWithProgress
ScrollReturn(fn, count) == IF fn = "progress" THEN <<>> ELSE <<count>>

\* the counts the page can show at scroll iteration i
Observable(i) ==
  IF script = <<>> THEN Counts
  ELSE {script[IF i <= Len(script) THEN i ELSE Len(script)]}

notScroll == <<loopVars, sleepVars, authVars, extractVars, moreVars>>

\* a call of one of the scroll functions, up to its first await
ScrollCall(fn, configured, sim) ==
  /\ scrollPc = "idle"
  /\ scrollFn' = fn
  /\ stabilityThreshold' = ThresholdOf(fn, configured)
  /\ script' = sim
  /\ scrollPc' = IF fn \in Limited THEN "initial" ELSE "loop"
  /\ UNCHANGED <<previousCount, stableIterations, scrollAttempts, scrollResult, notScroll>>

\* const initialCount = await count(); if (initialCount === 0) return 0
InitialCount(count) ==
  /\ scrollPc = "initial"
  /\ previousCount' = count
  /\ IF count = 0
       THEN scrollPc' = "done" /\ scrollResult' = <<0>>
       ELSE /\ scrollPc' = IF scrollFn = "popup" THEN "box" ELSE "loop"
            /\ UNCHANGED scrollResult
  /\ UNCHANGED <<scrollFn, stabilityThreshold, stableIterations, scrollAttempts, script,
                 notScroll>>

\* const box = await popup.boundingBox(); if (!box) return initialCount
BoundingBox(box) ==
  /\ scrollPc = "box"
  /\ IF box
       THEN scrollPc' = "loop" /\ UNCHANGED scrollResult
       ELSE scrollPc' = "done" /\ scrollResult' = <<previousCount>>
  /\ UNCHANGED <<scrollFn, stabilityThreshold, previousCount, stableIterations,
                 scrollAttempts, script, notScroll>>

\* one turn of the while loop, and the test that follows it
ScrollIteration(currentCount) ==
  /\ scrollPc = "loop"
  /\ scrollAttempts < MaxIterations
  /\ currentCount \in Observable(scrollAttempts + 1)
  /\ scrollAttempts' = scrollAttempts + 1
  /\ stableIterations' = StableAfter(stableIterations, previousCount, currentCount)
  /\ previousCount' = currentCount
  /\ IF ScrollGoesOn(scrollFn, stableIterations', scrollAttempts', stabilityThreshold)
       THEN UNCHANGED <<scrollPc, scrollResult>>
       ELSE scrollPc' = "done" /\ scrollResult' = ScrollReturn(scrollFn, currentCount)
  /\ UNCHANGED <<scrollFn, stabilityThreshold, script, notScroll>>

ScrollNext ==
  \/ \E fn \in ScrollFns, configured \in Thresholds, sim \in Scripts \cup {<<>>} :
       ScrollCall(fn, configured, sim)
  \/ \E count \in Counts : InitialCount(count)
  \/ \E box \in BOOLEAN : BoundingBox(box)
  \/ \E currentCount \in Counts : ScrollIteration(currentCount)

ScrollSpec == FreshInit /\ [][ScrollNext]_vars

\* ---- the extraction loops: extractProjectsFromPopup and extractAllProjects ----

\* what an item of the list can be: its id and title can be read; its href gives no
\* id; reading it throws; it has no title anywhere and its id has no slug; the
\* onProject callback throws
ItemKinds == {"ok", "noId", "throws", "noTitle", "callbackThrows"}
\* "popup": extractProjectsFromPopup; "all": extractAllProjects
ExtractFns == {"popup", "all"}

ItemOutcomeSkipsNoId(fn, kind) ==
  CASE kind = "ok" -> "extracted"
    [] kind = "noId" -> "skipped"
    [] kind = "noTitle" -> IF fn = "popup" THEN "extracted" ELSE "failed"
    [] OTHER -> "failed"

\* the body of the for loop: extracted++ at the end of the try block; failed++ on
\* a missing id (popup), or in the catch block
ItemOutcome(fn, kind) ==
  CASE kind = "ok" -> "extracted"
    [] kind = "noId" -> "failed"
    [] kind = "noTitle" -> IF fn = "popup" THEN "extracted" ELSE "failed"
    [] OTHER -> "failed"

Plus(n, o, which) == IF o = which THEN n + 1 ELSE n

\* the test of the for loop
AfterItem(i, count) == IF i < count THEN "item" ELSE "done"

notExtract == <<loopVars, sleepVars, authVars, scrollVars, moreVars>>

\* a call of one of the extraction functions on a list of count items
ExtractCall(fn, count) ==
  /\ extractPc = "idle"
  /\ extractFn' = fn
  /\ itemCount' = count
  /\ extractPc' = AfterItem(0, count)
  /\ UNCHANGED <<itemIndex, extracted, failed, outcome, notExtract>>

\* one turn of the for loop, up to the pause of extractAllProjects
ExtractItem(kind) ==
  /\ extractPc = "item"
  /\ LET o == ItemOutcome(extractFn, kind) IN
       /\ extracted' = Plus(extracted, o, "extracted")
       /\ failed' = Plus(failed, o, "failed")
       /\ outcome' = Append(outcome, o)
  /\ IF extractFn = "popup"
       THEN itemIndex' = itemIndex + 1 /\ extractPc' = AfterItem(itemIndex', itemCount)
       ELSE extractPc' = "pause" /\ UNCHANGED itemIndex
  /\ UNCHANGED <<extractFn, itemCount, notExtract>>

\* extractAllProjects: await page.waitForTimeout(BETWEEN_HOVERS), outside the try block
Pause(ok) ==
  /\ extractPc = "pause"
  /\ IF ok
       THEN itemIndex' = itemIndex + 1 /\ extractPc' = AfterItem(itemIndex', itemCount)
       ELSE extractPc' = "thrown" /\ UNCHANGED itemIndex
  /\ UNCHANGED <<extractFn, itemCount, extracted, failed, outcome, notExtract>>

ExtractNext ==
  \/ \E fn \in ExtractFns, count \in 0..MaxItems : ExtractCall(fn, count)
  \/ \E kind \in ItemKinds : ExtractItem(kind)
  \/ \E ok \in BOOLEAN : Pause(ok)

ExtractSpec == FreshInit /\ [][ExtractNext]_vars

\* ---- runSingleScan and the delta it reports, over the passes of runWatchMode ----

\* the items a list can hold: the id in the href and what becomes of the item
ScanKinds == {"ok", "noId", "callbackThrows"}
ScanItems == [id : ProjectIds, kind : ScanKinds]

\* addProjectToAll is reached: currentProjectIds.add(project.id)
RECURSIVE CurrentIds(_)
CurrentIds(list) ==
  IF list = <<>> THEN {}
  ELSE CurrentIds(Tail(list)) \cup
       (IF Head(list).kind \in {"ok", "callbackThrows"} THEN {Head(list).id} ELSE {})

\* the items counted as which ("extracted" or "failed") by the popup loop
RECURSIVE CountAs(_, _)
CountAs(list, which) ==
  IF list = <<>> THEN 0
  ELSE CountAs(Tail(list), which) +
       (IF ItemOutcome("popup", Head(list).kind) = which THEN 1 ELSE 0)

UnchangedByIds(done, current, previous) == Cardinality(current \cap previous)

\* const unchangedProjects = extracted - newProjects
UnchangedProjects(done, current, previous) == done - Cardinality(current \ previous)

\* runSingleScan on a page that shows all of list: the scroll returns the number
\* of items in the DOM, the loop extracts them, then the delta
RunSingleScan(list, previous) ==
  LET current == CurrentIds(list)
      done == CountAs(list, "extracted")
  IN  [totalProjects |-> Len(list),
       extracted |-> done,
       failed |-> CountAs(list, "failed"),
       newProjects |-> Cardinality(current \ previous),
       unchangedProjects |-> UnchangedProjects(done, current, previous),
       projectIds |-> current]

BaselineKept(previous, result) == previous

\* previousProjectIds = result.projectIds, the last statement of the try block
Baseline(previous, result) == result.projectIds

notScan == <<loopVars, sleepVars, authVars, scrollVars, extractVars, backendVars, afterBackends>>

\* between two passes a project is created: the list has one more item
ItemAppears(item) ==
  /\ Len(pageList) < MaxList
  /\ pageList' = Append(pageList, item)
  /\ unchangedList' = FALSE
  /\ UNCHANGED <<previousProjectIds, scanResult, baselineTotal, backToBack, scansDone, notScan>>

\* between two passes a project is deleted: the list has lost its first item
ItemGoes ==
  /\ pageList # <<>>
  /\ pageList' = Tail(pageList)
  /\ unchangedList' = FALSE
  /\ UNCHANGED <<previousProjectIds, scanResult, baselineTotal, backToBack, scansDone, notScan>>

\* one pass: runSingleScan returns, then completeRun; the rest of the try block
\* runs only if completeRun did not throw
ScanPass(completed) ==
  /\ scansDone < MaxPasses
  /\ scansDone' = scansDone + 1
  /\ scanResult' = RunSingleScan(pageList, previousProjectIds)
  /\ backToBack' = unchangedList
  /\ IF completed
       THEN /\ previousProjectIds' = Baseline(previousProjectIds, scanResult')
            /\ unchangedList' = TRUE
            /\ baselineTotal' = scanResult'.totalProjects
       ELSE UNCHANGED <<previousProjectIds, unchangedList, baselineTotal>>
  /\ UNCHANGED <<pageList, notScan>>

ScanNext ==
  \/ \E item \in ScanItems : ItemAppears(item)
  \/ ItemGoes
  \/ \E completed \in BOOLEAN : ScanPass(completed)

ScanSpec == FreshInit /\ [][ScanNext]_vars

\* ---- the watch loop with a store that may also leave the status update of
\* ---- failRun unapplied: failRun does not read the result of that update ----

\* failRun with an empty buffer: the update to 'failed' returns an error
FailRunUpdateFails ==
  /\ pc = "failRun"
  /\ currentRunId # NULL
  /\ DOMAIN buffer = {}
  /\ currentRunId' = NULL
  /\ EndOfPass
  /\ UNCHANGED <<shutdownRequested, scanCount, buffer, flushTimer, flushSucceeded,
                 flushAttempted, mainRows, inflight, dbVars, finalFlush, foundItems, currentProjectIds,
                 dedupVars, unitVars>>

\* failRun: its flush's upsert is answered, then the update to 'failed' returns an error
FailFlushEndUpdateFails(ok) ==
  /\ pc = "failFlush"
  /\ Answer(mainRows, ok)
  /\ Landed(mainRows, ok)
  /\ mainRows' = NoRows
  /\ currentRunId' = NULL
  /\ EndOfPass
  /\ UNCHANGED <<shutdownRequested, scanCount, flushTimer, flushAttempted, inflight, runs,
                 finalFlush, foundItems, currentProjectIds, dedupVars, unitVars>>

WideNext ==
  \/ Next
  \/ FailRunUpdateFails
  \/ \E ok \in BOOLEAN : FailFlushEndUpdateFails(ok)

WideSpec == Init /\ [][WideNext]_vars

\* ---- runWatchMode as its two backends see it: the local JSON writer and the
\* ---- Supabase writer, on a page that shows every project, with a store that
\* ---- is up or down ----

\* what the local file holds when the process starts
LocalFiles == {NoRows, [p \in {"p1"} |-> ProjectRecord(p, "A", 1)]}

\* syncFromLocalStorage: the projects of the file that the store does not have
MissingRows(file, tbl) == [p \in (DOMAIN file) \ (DOMAIN tbl) |-> SyncedRow(p)]

AfterInitializeGoesOn(up) == "loop"

\* try { await initializeBackends(backends); ... while ...} finally {...}, no catch
AfterInitialize(up) == IF up THEN "loop" ELSE "stopped"

\* the page shows the project and the pass has passed it to addProjectToAll
Scanned(id) == id \in DOMAIN wBuffer /\ wBuffer[id].lastConfirmedAt = Clock(scanCount)

notBackends == <<flushSucceeded, flushAttempted, mainRows, inflight, finalFlush, foundItems, currentProjectIds,
                 added, sleepVars, authVars, scrollVars, extractVars, scanVars, afterBackends>>

notInitialize == <<flushSucceeded, flushAttempted, mainRows, inflight, finalFlush, foundItems, currentProjectIds,
                   added, sleepVars, authVars, scrollVars, extractVars, scanVars, touchVars,
                   detectVars, labelVars, timerVars, headVars, afterSync>>

\* variant: the sync reads the file the local writer was given
SyncSourceOfWriter(isDefault, file, other) == file

\* syncFromLocalStorage(CONFIG.DEFAULT_OUTPUT_FILE): the file it reads
SyncSource(isDefault, file, other) == IF isDefault THEN file ELSE other

\* initializeBackends: Promise.all of ProjectWriter.initialize, which reads the
\* file, and SupabaseWriter.initialize, which throws if the select fails and
\* then calls syncFromLocalStorage, whose upsert is applied or returns an error;
\* then the finally block closes the backends, and close() of the local writer
\* writes its buffer, loaded or not yet
InitializeBackends(loaded, synced) ==
  /\ pc = "init"
  /\ pc' = AfterInitialize(supabaseUp)
  /\ IF supabaseUp
       THEN /\ wBuffer' = localFile
            /\ LET missing == MissingRows(SyncSource(outputIsDefault, localFile, defaultFile),
                                          projects)
               IN /\ projects' = IF synced THEN Upsert(projects, missing) ELSE projects
                  /\ syncFailed' = (~synced /\ DOMAIN missing # {})
            /\ UNCHANGED <<failure, localFile>>
       ELSE /\ wBuffer' = IF loaded THEN localFile ELSE wBuffer
            /\ localFile' = wBuffer'
            /\ failure' = "other"
            /\ UNCHANGED <<projects, syncFailed>>
  /\ UNCHANGED <<shutdownRequested, scanCount, buffer, flushTimer, currentRunId, runs,
                 supabaseUp, wTimer, outputIsDefault, defaultFile, notInitialize>>

\* the head of a pass: startRun(backends); if it throws, the catch block
StartRunAll ==
  /\ pc = "loop"
  /\ ~shutdownRequested
  /\ scanCount < MaxScans
  /\ scanCount' = scanCount + 1
  /\ IF supabaseUp
       THEN /\ runs' = Upsert(runs, [r \in {Clock(scanCount')} |-> NewRun(Clock(scanCount'))])
            /\ currentRunId' = Clock(scanCount')
            /\ pc' = "scan"
       ELSE /\ pc' = "sleep"
            /\ UNCHANGED <<runs, currentRunId>>
  /\ UNCHANGED <<shutdownRequested, failure, buffer, flushTimer, projects, wBuffer,
                 backendVars, notBackends>>

\* addProjectToAll: addProject of every backend
AddProjectToAll(id) ==
  /\ pc = "scan"
  /\ wBuffer' = WriterAddProject(wBuffer, ProjectRecord(id, "A", Clock(scanCount)))
  /\ wTimer' = TRUE
  /\ buffer' = SupabaseAddProject(buffer, ProjectRecord(id, "A", Clock(scanCount)))
  /\ flushTimer' = TRUE
  /\ UNCHANGED <<schedVars, currentRunId, dbVars, supabaseUp, localFile, notBackends>>

\* runSingleScan returns; completeRun(backends), which only the Supabase writer
\* has: flush, then the run completed, or failRun
ScanReturns ==
  /\ pc = "scan"
  /\ \A id \in ProjectIds : Scanned(id)
  /\ pc' = "sleep"
  /\ flushTimer' = FALSE
  /\ currentRunId' = NULL
  /\ IF supabaseUp
       THEN /\ projects' = Upsert(projects, FlushRows(buffer, currentRunId))
            /\ buffer' = NoRows
            /\ runs' = MarkCompleted(runs, currentRunId, Clock(scanCount))
       ELSE UNCHANGED <<projects, buffer, runs>>
  /\ UNCHANGED <<shutdownRequested, scanCount, failure, wBuffer, backendVars, notBackends>>

\* the timer of the local writer fires: flush() writes the buffer to the file
LocalTimerFlush ==
  /\ wTimer
  /\ wTimer' = FALSE
  /\ localFile' = wBuffer
  /\ UNCHANGED <<schedVars, buffer, flushTimer, currentRunId, dbVars, wBuffer, supabaseUp,
                 notBackends>>

\* the timer of the Supabase writer fires: flush()
SupabaseTimerFlush ==
  /\ flushTimer
  /\ flushTimer' = FALSE
  /\ IF supabaseUp
       THEN /\ projects' = Upsert(projects, FlushRows(buffer, currentRunId))
            /\ buffer' = NoRows
       ELSE UNCHANGED <<projects, buffer>>
  /\ UNCHANGED <<schedVars, currentRunId, runs, wBuffer, backendVars, notBackends>>

\* the store goes down or comes back
SupabaseFlips ==
  /\ supabaseUp' = ~supabaseUp
  /\ UNCHANGED <<schedVars, buffer, flushTimer, currentRunId, dbVars, wBuffer, localFile,
                 wTimer, notBackends>>

\* the loop exits; finally closeBackends: close() of every backend
CloseAll ==
  /\ pc = "loop"
  /\ shutdownRequested
  /\ pc' = "stopped"
  /\ wTimer' = FALSE
  /\ localFile' = wBuffer
  /\ flushTimer' = FALSE
  /\ IF supabaseUp /\ DOMAIN buffer # {}
       THEN /\ projects' = Upsert(projects, FlushRows(buffer, currentRunId))
            /\ buffer' = NoRows
       ELSE UNCHANGED <<projects, buffer>>
  /\ UNCHANGED <<shutdownRequested, scanCount, failure, currentRunId, runs, wBuffer,
                 supabaseUp, notBackends>>

BackendsNext ==
  \/ \E loaded \in BOOLEAN, synced \in BOOLEAN : InitializeBackends(loaded, synced)
  \/ StartRunAll
  \/ \E id \in ProjectIds : AddProjectToAll(id)
  \/ ScanReturns
  \/ LocalTimerFlush
  \/ SupabaseTimerFlush
  \/ SupabaseFlips
  \/ Sleep
  \/ RequestShutdown
  \/ CloseAll

\* runWatchMode at its start: nothing in the store, a local file or none
BackendsInit ==
  /\ InitAt("init")
  /\ runs = NoRows
  /\ supabaseUp \in BOOLEAN
  /\ localFile \in LocalFiles
  /\ optionsHeadful = FALSE
  /\ existingSession = TRUE
  /\ outputIsDefault \in BOOLEAN
  /\ defaultFile \in IF outputIsDefault THEN {NoRows} ELSE LocalFiles
  /\ NotifierCreated(TRUE)

BackendsSpec == BackendsInit /\ [][BackendsNext]_vars

\* ---- runWatchMode of orchestrator.ts and the touch queue processor that
\* ---- shares its page ----

\* the largest batch the fetch of processQueue returns
MaxRequests == 2

notTouch == <<loopVars, sleepVars, authVars, scrollVars, extractVars, scanVars, backendVars,
              afterTouch>>

EmptyResult == [processed |-> 0, succeeded |-> 0, failed |-> 0]

\* variant: a processQueue without its isProcessing test
ProcessQueueCallUnguarded(processing, at) == "fetch"

\* processQueue up to its first await: if (this.isProcessing) return result
ProcessQueueCall(processing, at) ==
  IF processing THEN at ELSE "fetch"

\* the result of the processQueue that goes on: a new one if this call does
ProcessQueueResult(processing, result) ==
  IF processing THEN result ELSE EmptyResult

\* result.succeeded++ or result.failed++
Counted(result, ok) ==
  IF ok THEN [result EXCEPT !.succeeded = @ + 1] ELSE [result EXCEPT !.failed = @ + 1]

\* ensureBrowser returns a live page
EnsureBrowserReturns ==
  /\ orchPc = "loop"
  /\ orchPc' = "pause"
  /\ UNCHANGED <<pollTimer, isProcessing, queuePc, requests, queueResult, skipped, notTouch>>

\* if (queueProcessor?.isPolling()) queueProcessor.stopPolling(); startRun is called
StopPolling ==
  /\ orchPc = "pause"
  /\ orchPc' = "startRun"
  /\ pollTimer' = FALSE
  /\ UNCHANGED <<isProcessing, queuePc, requests, queueResult, skipped, notTouch>>

\* startRun returns and runSingleScan navigates the page, or startRun throws
StartRunReturns(ok) ==
  /\ orchPc = "startRun"
  /\ orchPc' = IF ok THEN "scan" ELSE "sleep"
  /\ UNCHANGED <<pollTimer, isProcessing, queuePc, requests, queueResult, skipped, notTouch>>

\* runSingleScan returns: startPolling, with its initial poll, and completeRun is
\* called; or it throws: the catch block
RunSingleScanReturns(ok) ==
  /\ orchPc = "scan"
  /\ IF ok
       THEN /\ orchPc' = "complete"
            /\ pollTimer' = TRUE
            /\ IF pollTimer
                 THEN UNCHANGED <<isProcessing, queuePc, queueResult, skipped>>
                 ELSE /\ queuePc' = ProcessQueueCall(isProcessing, queuePc)
                      /\ queueResult' = ProcessQueueResult(isProcessing, queueResult)
                      /\ skipped' = isProcessing
                      /\ isProcessing' = TRUE
       ELSE /\ orchPc' = "sleep"
            /\ pollTimer' = FALSE
            /\ UNCHANGED <<isProcessing, queuePc, queueResult, skipped>>
  /\ UNCHANGED <<requests, notTouch>>

\* completeRun returns or throws
CompleteRunReturns ==
  /\ orchPc = "complete"
  /\ orchPc' = "sleep"
  /\ UNCHANGED <<pollTimer, isProcessing, queuePc, requests, queueResult, skipped, notTouch>>

\* sleep returns
SleepReturns ==
  /\ orchPc = "sleep"
  /\ orchPc' = "loop"
  /\ UNCHANGED <<pollTimer, isProcessing, queuePc, requests, queueResult, skipped, notTouch>>

\* the interval of startPolling fires: poll()
PollFires ==
  /\ pollTimer
  /\ queuePc' = ProcessQueueCall(isProcessing, queuePc)
  /\ queueResult' = ProcessQueueResult(isProcessing, queueResult)
  /\ skipped' = isProcessing
  /\ isProcessing' = TRUE
  /\ UNCHANGED <<orchPc, pollTimer, requests, notTouch>>

\* the select of the pending requests returns n of them, or an error
FetchReturns(n) ==
  /\ queuePc = "fetch"
  /\ requests' = n
  /\ IF n = 0
       THEN queuePc' = "idle" /\ isProcessing' = FALSE
       ELSE queuePc' = "mark" /\ UNCHANGED isProcessing
  /\ UNCHANGED <<orchPc, pollTimer, queueResult, skipped, notTouch>>

\* updateRequestStatus(id, 'processing') returns; mechanism.touch(page, ...) is called
MarkReturns ==
  /\ queuePc = "mark"
  /\ queuePc' = "touch"
  /\ queueResult' = [queueResult EXCEPT !.processed = @ + 1]
  /\ UNCHANGED <<orchPc, pollTimer, isProcessing, requests, skipped, notTouch>>

\* mechanism.touch returns or throws; updateRequestStatus is called
TouchReturns(ok) ==
  /\ queuePc = "touch"
  /\ queuePc' = "update"
  /\ queueResult' = Counted(queueResult, ok)
  /\ UNCHANGED <<orchPc, pollTimer, isProcessing, requests, skipped, notTouch>>

\* updateRequestStatus returns: the next request after the delay, or cleanup
UpdateReturns ==
  /\ queuePc = "update"
  /\ requests' = requests - 1
  /\ queuePc' = IF requests' > 0 THEN "mark" ELSE "cleanup"
  /\ UNCHANGED <<orchPc, pollTimer, isProcessing, queueResult, skipped, notTouch>>

\* cleanupOldRequests returns; finally this.isProcessing = false
CleanupReturns ==
  /\ queuePc = "cleanup"
  /\ queuePc' = "idle"
  /\ isProcessing' = FALSE
  /\ UNCHANGED <<orchPc, pollTimer, requests, queueResult, skipped, notTouch>>

TouchNext ==
  \/ EnsureBrowserReturns
  \/ StopPolling
  \/ \E ok \in BOOLEAN : StartRunReturns(ok)
  \/ \E ok \in BOOLEAN : RunSingleScanReturns(ok)
  \/ CompleteRunReturns
  \/ SleepReturns
  \/ PollFires
  \/ \E n \in 0..MaxRequests : FetchReturns(n)
  \/ MarkReturns
  \/ \E ok \in BOOLEAN : TouchReturns(ok)
  \/ UpdateReturns
  \/ CleanupReturns

TouchSpec == FreshInit /\ [][TouchNext]_vars

\* ---- detectAuthState on a page ----

\* AUTH_URL_PATTERNS
LOGIN == <<"auth0.openai.com", "/auth/login", "login.openai.com">>
AUTHENTICATED == <<"chatgpt.com">>

\* the URLs a page is at: host and path
Urls ==
  {<<"auth0.openai.com", "/u/login">>, <<"chatgpt.com", "/auth/login">>,
   <<"login.openai.com", "/auth">>, <<"google.com", "/">>, <<"openai.com", "/">>,
   <<"chatgpt.com", "/">>, <<"chatgpt.com", "/c/123456">>}

\* SELECTORS.sidebar and SELECTORS.loginIndicators, two of each
SidebarSelectors == {"#sidebar", "nav"}
LoginIndicators == {"Log in", "Sign up"}

\* url.includes(pattern)
Includes(url, pattern) == \E i \in 1..Len(url) : url[i] = pattern

\* for (const pattern of LOGIN) if (url.includes(pattern)) return LOGIN_REQUIRED
MatchesLogin(url) == \E i \in 1..Len(LOGIN) : Includes(url, LOGIN[i])

\* AUTHENTICATED.some((pattern) => url.includes(pattern))
isOnChatGPT(url) == \E i \in 1..Len(AUTHENTICATED) : Includes(url, AUTHENTICATED[i])

detectDomFirst(url, sidebar, login) ==
  IF sidebar # {} THEN "authenticated"
  ELSE IF MatchesLogin(url) \/ ~isOnChatGPT(url) \/ login # {} THEN "login_required"
  ELSE "unknown"

\* detectAuthState: the URL, then the sidebar selectors, then the login indicators
detectAuthState(url, sidebar, login) ==
  IF MatchesLogin(url) THEN "login_required"
  ELSE IF ~isOnChatGPT(url) THEN "login_required"
  ELSE IF \E selector \in SidebarSelectors : selector \in sidebar THEN "authenticated"
  ELSE IF \E selector \in LoginIndicators : selector \in login THEN "login_required"
  ELSE "unknown"

notDetect == <<loopVars, sleepVars, authVars, scrollVars, extractVars, scanVars, backendVars,
               touchVars, afterDetect>>

\* detectAuthState is called on a page
DetectCall(url, sidebar, login) ==
  /\ detectPc # "called"
  /\ detectPc' = "called"
  /\ pageUrl' = url
  /\ visibleSidebar' = sidebar
  /\ visibleLogin' = login
  /\ authState' = "none"
  /\ UNCHANGED notDetect

\* detectAuthState returns
DetectReturns ==
  /\ detectPc = "called"
  /\ detectPc' = "returned"
  /\ authState' = detectAuthState(pageUrl, visibleSidebar, visibleLogin)
  /\ UNCHANGED <<pageUrl, visibleSidebar, visibleLogin, notDetect>>

DetectNext ==
  \/ \E url \in Urls, sidebar \in SUBSET SidebarSelectors, login \in SUBSET LoginIndicators :
       DetectCall(url, sidebar, login)
  \/ DetectReturns

DetectSpec == FreshInit /\ [][DetectNext]_vars

\* ---- the title of one extracted item ----

\* if (x && x.length < 200)
TitleLimit == 200

\* the lengths of a candidate: none or empty, just under the limit, at the limit
Lengths == {0, TitleLimit - 1, TitleLimit}

LabelFns == {"popup", "hover"}

\* x && x.length < 200
Usable(len) == len > 0 /\ len < TitleLimit

PopupTitleAttrFirst(inner, attr, slug) ==
  IF Usable(attr) THEN "titleAttr"
  ELSE IF Usable(inner) THEN "innerText"
  ELSE IF slug THEN "slug" ELSE "id"

\* extractProjectsFromPopup: innerText > title attribute > slug fallback
PopupTitle(inner, attr, slug) ==
  IF Usable(inner) THEN "innerText"
  ELSE IF Usable(attr) THEN "titleAttr"
  ELSE IF slug THEN "slug" ELSE "id"

\* extractProjectData: tooltip > title attribute > innerText, then the slug, then
\* innerTextTitle || '', and an empty title throws
HoverTitle(tooltip, attr, inner, slug) ==
  IF Usable(tooltip) THEN "tooltip"
  ELSE IF Usable(attr) THEN "titleAttr"
  ELSE IF Usable(inner) THEN "innerText"
  ELSE IF slug THEN "slug"
  ELSE IF inner > 0 THEN "innerText" ELSE "throws"

notLabel == <<loopVars, sleepVars, authVars, scrollVars, extractVars, scanVars, backendVars,
              touchVars, detectVars, afterLabel>>

\* the extraction reads the candidates of an item; the popup path reads no tooltip
LabelCall(fn, tooltip, attr, inner, slug) ==
  /\ labelPc # "called"
  /\ fn = "popup" => tooltip = 0
  /\ labelPc' = "called"
  /\ labelFn' = fn
  /\ fullTitle' = tooltip
  /\ titleAttr' = attr
  /\ innerText' = inner
  /\ slugMatch' = slug
  /\ titleFrom' = "none"
  /\ UNCHANGED notLabel

\* the title is picked
LabelReturns ==
  /\ labelPc = "called"
  /\ labelPc' = "returned"
  /\ titleFrom' = IF labelFn = "popup"
                    THEN PopupTitle(innerText, titleAttr, slugMatch)
                    ELSE HoverTitle(fullTitle, titleAttr, innerText, slugMatch)
  /\ UNCHANGED <<labelFn, fullTitle, titleAttr, innerText, slugMatch, notLabel>>

LabelNext ==
  \/ \E fn \in LabelFns, tooltip \in Lengths, attr \in Lengths, inner \in Lengths,
        slug \in BOOLEAN : LabelCall(fn, tooltip, attr, inner, slug)
  \/ LabelReturns

LabelSpec == FreshInit /\ [][LabelNext]_vars

\* ---- the flush timer of a writer: scheduleFlush and flush of ProjectWriter
\* ---- and of SupabaseWriter ----

\* the time runs to MaxClock half intervals, and addProject is called MaxTimerAdds times
MaxClock == 4
MaxTimerAdds == 3

\* CONFIG.STORAGE.FLUSH_INTERVAL
FLUSH_INTERVAL == 5000

HalfInterval == FLUSH_INTERVAL \div 2

ScheduleFlushAlways(field, pending, id, now) ==
  pending \cup {[id |-> id, due |-> now + FLUSH_INTERVAL]}

\* scheduleFlush: if (this.flushTimer) return; this.flushTimer = setTimeout(...)
ScheduleFlush(field, pending, id, now) ==
  IF field # NULL THEN pending ELSE pending \cup {[id |-> id, due |-> now + FLUSH_INTERVAL]}

\* clearTimeout(this.flushTimer)
ClearTimeout(pending, field) == {t \in pending : t.id # field}

notTimer == <<loopVars, sleepVars, authVars, scrollVars, extractVars, scanVars, backendVars,
              touchVars, detectVars, labelVars, afterTimer>>

\* addProject: the record into the buffer, then scheduleFlush
TimerAddProject(id) ==
  /\ timerAdds < MaxTimerAdds
  /\ timerAdds' = timerAdds + 1
  /\ timerBuffer' = timerBuffer \cup {id}
  /\ timeouts' = ScheduleFlush(timerField, timeouts, timerIds + 1, tClock)
  /\ timerField' = IF timerField # NULL THEN timerField ELSE timerIds + 1
  /\ timerIds' = IF timerField # NULL THEN timerIds ELSE timerIds + 1
  /\ UNCHANGED <<tClock, notTimer>>

\* a timeout is due and fires: flush(), which clears this.flushTimer and writes
\* the buffer; the Supabase writer empties its buffer if the upsert succeeds
TimeoutFires(t, emptied) ==
  /\ t \in timeouts
  /\ t.due <= tClock
  /\ timeouts' = ClearTimeout(timeouts \ {t}, timerField)
  /\ timerField' = NULL
  /\ timerBuffer' = IF emptied THEN {} ELSE timerBuffer
  /\ UNCHANGED <<tClock, timerIds, timerAdds, notTimer>>

\* flush() called by completeRun, failRun or close
DirectFlush(emptied) ==
  /\ timeouts' = ClearTimeout(timeouts, timerField)
  /\ timerField' = NULL
  /\ timerBuffer' = IF emptied THEN {} ELSE timerBuffer
  /\ UNCHANGED <<tClock, timerIds, timerAdds, notTimer>>

\* half an interval passes with no timeout due
HalfIntervalPasses ==
  /\ tClock < MaxClock * HalfInterval
  /\ \A t \in timeouts : t.due > tClock
  /\ tClock' = tClock + HalfInterval
  /\ UNCHANGED <<timeouts, timerField, timerIds, timerAdds, timerBuffer, notTimer>>

TimerNext ==
  \/ \E id \in ProjectIds : TimerAddProject(id)
  \/ \E t \in timeouts, emptied \in BOOLEAN : TimeoutFires(t, emptied)
  \/ \E emptied \in BOOLEAN : DirectFlush(emptied)
  \/ HalfIntervalPasses

TimerSpec == FreshInit /\ [][TimerNext]_vars

\* ---- runWatchMode and the browser it launches ----

\* launchBrowser is called at most MaxLaunches times
MaxLaunches == 3

needsHeadfulOptionOnly(headful, forced) == headful

\* ensureBrowser: const needsHeadful = options.headful || forceHeadfulDueToAuth
needsHeadful(headful, forced) == headful \/ forced

\* launchBrowser: forced, or no session yet -> headful; else headless
launchBrowser(forceHeadful, session) ==
  IF forceHeadful THEN "headful"
  ELSE IF ~session THEN "headful"
  ELSE "headless"

\* the catch block: message.includes('Authentication timeout') || includes('Login
\* required') sets the flag; the success path clears it
FlagAfter(flag, how) ==
  IF how = "auth" THEN TRUE
  ELSE IF how = "ok" THEN FALSE
  ELSE flag

\* the catch block: page = null on an authentication or browser error
PageAfter(state, how) ==
  IF how \in {"auth", "browser"} THEN "null" ELSE state

Outcomes == {"ok", "auth", "browser", "other"}

notHead == <<loopVars, sleepVars, authVars, scrollVars, extractVars, scanVars, backendVars,
             touchVars, detectVars, labelVars, timerVars, afterHead>>

\* ensureBrowser: the page answers evaluate and is returned, or the browser is
\* launched; Chromium creates the Cookies file of the profile
EnsureBrowser ==
  /\ headPc = "loop"
  /\ headPc' = "pass"
  /\ IF pageState = "alive"
       THEN UNCHANGED <<pageState, launchMode, launches, existingSession>>
       ELSE /\ launches < MaxLaunches
            /\ launches' = launches + 1
            /\ launchMode' = launchBrowser(needsHeadful(optionsHeadful, forceHeadfulDueToAuth),
                                           existingSession)
            /\ pageState' = "alive"
            /\ existingSession' = TRUE
  /\ UNCHANGED <<forceHeadfulDueToAuth, optionsHeadful, lastOutcome, authFailedSince, notHead>>

\* the pass ends: completeRun returned, or the catch block
PassEnds(how) ==
  /\ headPc = "pass"
  /\ headPc' = "sleep"
  /\ lastOutcome' = how
  /\ forceHeadfulDueToAuth' = FlagAfter(forceHeadfulDueToAuth, how)
  /\ pageState' = PageAfter(pageState, how)
  /\ authFailedSince' = IF how = "auth" THEN TRUE
                        ELSE IF how = "ok" THEN FALSE ELSE authFailedSince
  /\ UNCHANGED <<optionsHeadful, existingSession, launchMode, launches, notHead>>

\* the browser is closed or its session expires
PageDies ==
  /\ pageState = "alive"
  /\ pageState' = "dead"
  /\ UNCHANGED <<headPc, forceHeadfulDueToAuth, optionsHeadful, existingSession, launchMode,
                 launches, lastOutcome, authFailedSince, notHead>>

\* sleep returns
HeadSleep ==
  /\ headPc = "sleep"
  /\ headPc' = "loop"
  /\ UNCHANGED <<pageState, forceHeadfulDueToAuth, optionsHeadful, existingSession,
                 launchMode, launches, lastOutcome, authFailedSince, notHead>>

HeadNext ==
  \/ EnsureBrowser
  \/ \E how \in Outcomes : PassEnds(how)
  \/ PageDies
  \/ HeadSleep

\* runWatchMode starts with either option and with or without a profile
HeadInit ==
  /\ InitAt("loop")
  /\ runs = NoRows
  /\ supabaseUp = TRUE
  /\ localFile = NoRows
  /\ optionsHeadful \in BOOLEAN
  /\ existingSession \in BOOLEAN
  /\ outputIsDefault = TRUE
  /\ defaultFile = NoRows
  /\ NotifierCreated(TRUE)

HeadSpec == HeadInit /\ [][HeadNext]_vars

\* ---- notify and its rate limiter ----

\* notify is called MaxNotifyCalls times while MaxNotifyTicks half cooldowns pass
MaxNotifyCalls == 3
MaxNotifyTicks == 4

HalfCooldown == cooldownMs \div 2

canNotifyAnyEvent(last, event, now) ==
  \A other \in NotificationEvents : now - last[other] >= cooldownMs

\* canNotify: now - (lastNotificationTime.get(event) ?? 0) >= cooldownMs
canNotify(last, event, now) == now - last[event] >= cooldownMs

notNotify == <<loopVars, sleepVars, authVars, scrollVars, extractVars, scanVars, backendVars,
               touchVars, detectVars, labelVars, timerVars, headVars, syncVars, afterNotify>>

\* notify up to its first await: no channel, rate limited, or a channel is tried
NotifyCall(event) ==
  /\ notifyPc = "idle"
  /\ notifyCalls < MaxNotifyCalls
  /\ notifyCalls' = notifyCalls + 1
  /\ notifyEvent' = event
  /\ IF ~hasChannels
       THEN notifyResult' = "noChannels" /\ notifyPc' = "idle"
       ELSE IF ~canNotify(lastNotificationTime, event, nClock)
         THEN notifyResult' = "suppressed" /\ notifyPc' = "idle"
         ELSE notifyResult' = "none" /\ notifyPc' = "sending"
  /\ UNCHANGED <<nClock, hasChannels, lastNotificationTime, sentLog, notNotify>>

\* the channels have answered: recordNotification if one of them succeeded
SendReturns(ok) ==
  /\ notifyPc = "sending"
  /\ notifyPc' = "idle"
  /\ notifyResult' = IF ok THEN "sent" ELSE "failed"
  /\ sentLog' = IF ok THEN sentLog \cup {[event |-> notifyEvent, at |-> nClock]} ELSE sentLog
  /\ lastNotificationTime' =
       IF ok THEN [lastNotificationTime EXCEPT ![notifyEvent] = nClock]
       ELSE lastNotificationTime
  /\ UNCHANGED <<nClock, hasChannels, notifyEvent, notifyCalls, notNotify>>

\* half a cooldown passes between two calls of notify
HalfCooldownPasses ==
  /\ notifyPc = "idle"
  /\ nClock < cooldownMs + MaxNotifyTicks * HalfCooldown
  /\ nClock' = nClock + HalfCooldown
  /\ UNCHANGED <<hasChannels, lastNotificationTime, notifyPc, notifyEvent, notifyResult,
                 notifyCalls, sentLog, notNotify>>

NotifyNext ==
  \/ \E event \in NotificationEvents : NotifyCall(event)
  \/ \E ok \in BOOLEAN : SendReturns(ok)
  \/ HalfCooldownPasses

\* createNotifier with or without an enabled channel
NotifyInit ==
  /\ InitAt("loop")
  /\ runs = NoRows
  /\ supabaseUp = TRUE
  /\ localFile = NoRows
  /\ optionsHeadful = FALSE
  /\ existingSession = TRUE
  /\ outputIsDefault = TRUE
  /\ defaultFile = NoRows
  /\ \E channels \in BOOLEAN : NotifierCreated(channels)

NotifySpec == NotifyInit /\ [][NotifyNext]_vars

\* ---- flush of ProjectWriter, one step for each of its awaits ----

\* the calls of flush in one life of the writer
MaxFlushes == 2

\* a path with no file, and a file with the projects of a storage
Absent == [exists |-> FALSE, projects |-> {}]
FileOf(storage) == [exists |-> TRUE, projects |-> storage]

notFile == <<loopVars, sleepVars, authVars, scrollVars, extractVars, scanVars, backendVars,
             touchVars, detectVars, labelVars, timerVars, headVars, syncVars, notifyVars>>

\* flush up to its first await: the timer is cleared, the storage is built from the buffer
FlushCall(calls, buf) == Append(calls, [at |-> "mkdir", storage |-> buf])

\* fs.rename(tempPath, absolutePath): ENOENT when the temp file is not there
Rename(temp, file) == IF temp = Absent THEN file ELSE temp

\* ProjectWriter.addProject: buffer.set, scheduleFlush
FileAddProject(id) ==
  /\ ~writerClosed
  /\ id \notin fileBuffer
  /\ fileBuffer' = fileBuffer \cup {id}
  /\ fileTimer' = TRUE
  /\ UNCHANGED <<flushes, tempFile, outputFile, lastStorage, writerClosed, notFile>>

\* the debounce timer fires: this.flush().catch(console.error)
FileTimerFires ==
  /\ fileTimer
  /\ Len(flushes) < MaxFlushes
  /\ fileTimer' = FALSE
  /\ flushes' = FlushCall(flushes, fileBuffer)
  /\ lastStorage' = fileBuffer
  /\ UNCHANGED <<fileBuffer, tempFile, outputFile, writerClosed, notFile>>

\* close: clearTimeout, await this.flush()
FileClose ==
  /\ ~writerClosed
  /\ Len(flushes) < MaxFlushes
  /\ writerClosed' = TRUE
  /\ fileTimer' = FALSE
  /\ flushes' = FlushCall(flushes, fileBuffer)
  /\ lastStorage' = fileBuffer
  /\ UNCHANGED <<fileBuffer, tempFile, outputFile, notFile>>

\* fs.mkdir of flush i returns
MkdirReturns(i) ==
  /\ i \in DOMAIN flushes
  /\ flushes[i].at = "mkdir"
  /\ flushes' = [flushes EXCEPT ![i].at = "writeFile"]
  /\ UNCHANGED <<fileBuffer, fileTimer, tempFile, outputFile, lastStorage, writerClosed, notFile>>

\* fs.writeFile(tempPath, ...) of flush i returns
WriteFileReturns(i) ==
  /\ i \in DOMAIN flushes
  /\ flushes[i].at = "writeFile"
  /\ tempFile' = FileOf(flushes[i].storage)
  /\ flushes' = [flushes EXCEPT ![i].at = "rename"]
  /\ UNCHANGED <<fileBuffer, fileTimer, outputFile, lastStorage, writerClosed, notFile>>

\* fs.rename(tempPath, absolutePath) of flush i returns or throws
RenameReturns(i) ==
  /\ i \in DOMAIN flushes
  /\ flushes[i].at = "rename"
  /\ outputFile' = Rename(tempFile, outputFile)
  /\ tempFile' = Absent
  /\ flushes' = [flushes EXCEPT ![i].at = IF tempFile = Absent THEN "threw" ELSE "returned"]
  /\ UNCHANGED <<fileBuffer, fileTimer, lastStorage, writerClosed, notFile>>

FileNext ==
  \/ \E id \in ProjectIds : FileAddProject(id)
  \/ FileTimerFires
  \/ FileClose
  \/ \E i \in 1..MaxFlushes : MkdirReturns(i)
  \/ \E i \in 1..MaxFlushes : WriteFileReturns(i)
  \/ \E i \in 1..MaxFlushes : RenameReturns(i)

FileSpec == FreshInit /\ [][FileNext]_vars

\* ---- addProject of the two writers, applied to the same records ----

DedupRecords ==
  [id : ProjectIds, title : DedupTitles, firstSeenAt : 1..MaxTime, lastConfirmedAt : 1..MaxTime]

\* addProjectToAll(backends, project): every backend's addProject
DedupAdd(project) ==
  /\ Len(added) < MaxAdds
  /\ added' = Append(added, project)
  /\ buffer' = SupabaseAddProject(buffer, project)
  /\ flushTimer' = TRUE
  /\ wBuffer' = WriterAddProject(wBuffer, project)
  /\ UNCHANGED <<schedVars, currentRunId, flushSucceeded, flushAttempted, mainRows, inflight,
                 dbVars, finalFlush, foundItems, currentProjectIds, unitVars>>

DedupInit == Init /\ runs = NoRows

DedupNext == \E project \in DedupRecords : DedupAdd(project)

DedupSpec == DedupInit /\ [][DedupNext]_vars

\* ---- properties ----

\* the run row of the pass in progress (or of the last pass, between passes)
ThisRun == Clock(scanCount)

LastConfirmedBy(tbl, p) == tbl[p].last_confirmed_run_id

Deleted(old, new) == (DOMAIN old) \ (DOMAIN new)

PassIsOver == pc \in {"sleep", "loop", "closeFlush", "stopped"}

\* what C1 says of a state: the run is on its way to completed, or completed, only
\* when the final flush of completeRun succeeded; when that flush failed the run is
\* running until failRun has marked it and failed from then on
AtomicityGate ==
  scanCount > 0 =>
    /\ pc \in {"promote", "cleanup"} => finalFlush = "ok"
    /\ (ThisRun \in DOMAIN runs /\ runs[ThisRun].status = "completed") => finalFlush = "ok"
    /\ finalFlush = "failed" =>
         /\ ThisRun \in DOMAIN runs
         /\ runs[ThisRun].status = IF PassIsOver THEN "failed" ELSE "running"

C3_DeletesOnlyUnretained ==
  [][\A p \in Deleted(projects, projects') :
       LastConfirmedBy(projects, p) \notin RecentCompleted(runs', KEEP_RUNS)]_vars

\* p1, confirmed last by run 1, is gone with runs 2, 3, 4 kept, and p2, confirmed
\* last by the oldest kept run, is still there
C3_Witness ==
  /\ RecentCompleted(runs, KEEP_RUNS) = {2, 3, 4}
  /\ "p1" \notin DOMAIN projects
  /\ "p2" \in DOMAIN projects
  /\ LastConfirmedBy(projects, "p2") = 2

\* C4: with KEEP_RUNS = 3 and every run successful, the cleanup of a run that is
\* completed run number N > 3 leaves exactly the three most recent runs in runs,
\* leaves every row of projects whose last_confirmed_run_id is one of the three as
\* it was, and removes every row confirmed last by an older run.
C4_RetentionKeepsThree ==
  [][(/\ pc = "cleanup"
      /\ pc' # "cleanup"
      /\ Cardinality(RunsWithStatus(runs, "completed")) > KEEP_RUNS) =>
       LET kept == (ThisRun - KEEP_RUNS + 1)..ThisRun IN
         /\ DOMAIN runs' = kept
         /\ \A p \in DOMAIN projects :
              LastConfirmedBy(projects, p) \in kept =>
                p \in DOMAIN projects' /\ projects'[p] = projects[p]
         /\ \A p \in DOMAIN projects :
              (LastConfirmedBy(projects, p) # NULL /\ LastConfirmedBy(projects, p) \notin kept) =>
                p \notin DOMAIN projects']_vars

\* after the fourth successful run: runs 2, 3, 4 are kept, p1 (run 1) is removed and
\* p2 (run 2 or run 4) is there
C4_Witness ==
  /\ pc = "sleep"
  /\ DOMAIN runs = {2, 3, 4}
  /\ \A r \in DOMAIN runs : runs[r].status = "completed"
  /\ "p1" \notin DOMAIN projects
  /\ "p2" \in DOMAIN projects

\* the columns of a row that come from the record
SameRecord(row, project) ==
  /\ row.title = project.title
  /\ row.first_seen_at = project.firstSeenAt
  /\ row.last_confirmed_at = project.lastConfirmedAt

\* C5: a step in which a flush fails leaves every buffered record in the buffer, and
\* a record leaves the buffer only in a step that writes it to projects.
C5_BufferedRecordsAreWritten ==
  [][\A p \in Deleted(buffer, buffer') :
       /\ p \in DOMAIN projects'
       /\ SameRecord(projects'[p], buffer[p])]_vars

C7_NeverDeleted == [][Deleted(projects, projects') = {}]_vars

\* C7, amended: a row leaves projects only in the retention cleanup that follows the
\* promotion of a run, only when at least KEEP_RUNS completed runs exist, and the
\* row is then neither one whose run columns are NULL nor one confirmed by the run
\* that has just completed.
C7_DeletedOnlyByRetention ==
  [][\A p \in Deleted(projects, projects') :
       /\ pc = "cleanup"
       /\ Cardinality(RunsWithStatus(runs, "completed")) >= KEEP_RUNS
       /\ ThisRun \in RunsWithStatus(runs, "completed")
       /\ LastConfirmedBy(projects, p) \notin {NULL, ThisRun}]_vars

\* p1 was not observed by this process and is gone; the row recovered from the local
\* file, which no run confirmed, is still there
C7_Witness ==
  /\ "p1" \notin DOMAIN projects
  /\ "p0" \in DOMAIN projects
  /\ LastConfirmedBy(projects, "p0") = NULL
  /\ 2 \in DOMAIN runs
  /\ 1 \notin DOMAIN runs

\* what C8 says of a buffer after the calls addProject(first), addProject(latest)
Deduplicated(buf, first, latest) ==
  /\ DOMAIN buf = {first.id}
  /\ buf[first.id].firstSeenAt = first.firstSeenAt
  /\ buf[first.id].title = latest.title
  /\ buf[first.id].lastConfirmedAt = latest.lastConfirmedAt

TwoAddsOfOneId ==
  /\ Len(added) = 2
  /\ added[1].id = added[2].id
  /\ added[1].title # added[2].title
  /\ added[1].lastConfirmedAt # added[2].lastConfirmedAt

\* C8: after two records with the same id, different titles and different
\* lastConfirmedAt were added, each writer holds one record, with the firstSeenAt of
\* the first and the title and lastConfirmedAt of the second.
C8_DedupInEveryWriter ==
  TwoAddsOfOneId =>
    /\ Deduplicated(wBuffer, added[1], added[2])
    /\ Deduplicated(buffer, added[1], added[2])

\* C9: a row of projects keeps its first_seen_at in every step.
C9_FirstSeenNeverChanges ==
  [][\A p \in (DOMAIN projects) \cap (DOMAIN projects') :
       projects'[p].first_seen_at = projects[p].first_seen_at]_vars

C11_CooperativeShutdown ==
  /\ [][/\ shutdownRequested' # shutdownRequested =>
            UNCHANGED <<pc, scanCount, failure, writerVars, dbVars>>
        /\ (pc' \in {"closeFlush", "stopped"} /\ pc \notin {"closeFlush", "stopped"}) =>
            (pc = "loop" /\ shutdownRequested)
        /\ shutdownRequested => scanCount' = scanCount]_vars
  /\ shutdownRequested ~> (pc = "stopped")

\* shutdown was requested while the upsert of the pass's final flush was awaited, and
\* the pass went on to its promotion
C11_Witness ==
  /\ shutdownRequested
  /\ pc = "cleanup"
  /\ finalFlush = "ok"
  /\ ThisRun \in RunsWithStatus(runs, "completed")

\* C12: sleep awaits timeouts of at most checkInterval, reads the flag after each,
\* and so returns at most checkInterval after the flag was set; with the flag unset
\* it returns after exactly ms.
C12_SleepReturnsWithinOneSlice ==
  /\ sleepPc = "wait" => remaining <= checkInterval
  /\ late <= checkInterval
  /\ sleepPc = "done" =>
        /\ waited <= sleepMs
        /\ ~shutdownRequested => waited = sleepMs

\* a sleep of 2500 ms during which the flag was set: it returned before 2500 ms had
\* passed
C12_Witness ==
  /\ sleepPc = "done"
  /\ sleepMs = 2500
  /\ shutdownRequested
  /\ late > 0
  /\ waited < sleepMs

C15_RecoversAfterTwoPolls ==
  flipAt \in {2 * AUTH_POLL_INTERVAL, SETTLE_DELAY + 2 * AUTH_POLL_INTERVAL} =>
    /\ authPc \notin {"idle", "done"} => ENABLED AuthNext
    /\ dateNow <= AUTH_RECOVERY
    /\ authPc = "done" => authResult = "true"

\* the sidebar showed up 4 s after the call, the polling saw login_required first and
\* then returned true
C15_Witness ==
  /\ authPc = "done"
  /\ flipAt = 2 * AUTH_POLL_INTERVAL
  /\ authResult = "true"
  /\ dateNow > startTime
  /\ startTime > 0

\* ---- the scroll loops ----

\* C16: for every sequence of observed item counts the scroll loop terminates:
\* it never makes more iterations than the hard ceiling (the largest
\* maxScrollAttempts of the code), it stops only when stableIterations has
\* reached stabilityThreshold or the ceiling is reached, and it returns the
\* last observed count.
C16_ScrollLoopTerminates ==
  /\ scrollAttempts <= maxScrollAttempts("popup")
  /\ scrollPc = "done" /\ scrollFn # "progress" => scrollResult = <<previousCount>>
  /\ scrollPc = "done" /\ scrollAttempts > 0 =>
       \/ stableIterations >= stabilityThreshold
       \/ scrollAttempts >= maxScrollAttempts(scrollFn)

\* the simulation of C17
Simulated == stabilityThreshold = 3 /\ script = <<10, 25, 40, 40, 40>> /\ scrollAttempts > 0

\* C17 as stated: on the counts [10, 25, 40, 40, 40], one per scroll iteration,
\* with stabilityThreshold = 3, the loop is over at iteration 5 and reports 40.
C17_TerminatesAtIterationFive ==
  Simulated =>
    /\ scrollAttempts <= 5
    /\ scrollAttempts = 5 => scrollPc = "done"
    /\ scrollPc = "done" => previousCount = 40

\* C17, amended: on those counts with stabilityThreshold = 3 the counter stands
\* at 2 after iteration 5 and the loop goes on; with the count still 40 it is
\* over at iteration 6, and reports 40.
C17_TerminatesAtIterationSix ==
  Simulated =>
    /\ scrollAttempts <= 6
    /\ scrollAttempts = 5 => stableIterations = 2 /\ scrollPc = "loop"
    /\ scrollAttempts = 6 => scrollPc = "done"
    /\ scrollPc = "done" =>
         /\ scrollAttempts = 6
         /\ previousCount = 40
         /\ scrollFn # "progress" => scrollResult = <<40>>

C17_Witness ==
  /\ Simulated
  /\ scrollPc = "done"
  /\ scrollAttempts = 6
  /\ scrollResult = <<40>>

\* C18 as stated: at every iteration stableIterations becomes 0 if the count
\* has increased, and one more than it was if the count has not increased.
C18_ResetOnIncreaseOnly ==
  [][scrollAttempts' = scrollAttempts + 1 =>
       stableIterations' = IF previousCount' > previousCount THEN 0
                           ELSE stableIterations + 1]_vars

\* C18, amended: at every iteration stableIterations becomes 0 if the count
\* has changed, upwards or downwards, and one more than it was if the count
\* is the same.
C18_ResetOnChange ==
  [][scrollAttempts' = scrollAttempts + 1 =>
       stableIterations' = IF previousCount' # previousCount THEN 0
                           ELSE stableIterations + 1]_vars

\* the count fell from 25 to 10 at iteration 2 and stayed at iteration 3
C18_Witness ==
  /\ script = <<25, 10>>
  /\ scrollFn = "scroller"
  /\ scrollAttempts = 3
  /\ previousCount = 10
  /\ stableIterations = 1

\* ---- the extraction loops ----

\* the items visited so far: the one whose turn ended at the pause included
Visited == itemIndex + (IF extractPc \in {"pause", "thrown"} THEN 1 ELSE 0)

\* C19: an item that cannot be extracted (no id in its href, an error while it
\* is read, no title, a callback that throws) is counted as failed and the loop
\* goes on to the next item: every item visited is counted exactly once, as
\* extracted or as failed, the function returns only after the last item, and
\* nothing but the pause between two items ends the loop early.
C19_ItemErrorsAreCounted ==
  /\ [](/\ Len(outcome) = Visited
        /\ \A k \in 1..Len(outcome) : outcome[k] \in {"extracted", "failed"}
        /\ extracted = Cardinality({k \in 1..Len(outcome) : outcome[k] = "extracted"})
        /\ failed = Cardinality({k \in 1..Len(outcome) : outcome[k] = "failed"})
        /\ extractPc = "done" => Visited = itemCount)
  /\ [][extractPc' = "thrown" => extractPc = "pause"]_vars
  /\ [][extractPc = "item" => Len(outcome') = Len(outcome) + 1 /\ extractPc' # "thrown"]_vars

\* the function returned after an item that failed and an item extracted after it
C19_Witness ==
  /\ extractPc = "done"
  /\ itemCount = MaxItems
  /\ outcome[1] = "failed"
  /\ outcome[MaxItems] = "extracted"
  /\ failed > 0

\* ---- a pass that finds nothing ----

\* runSingleScan has called addProjectToAll for no item and the writer has nothing to write
ZeroItemPass == currentRunId # NULL /\ ~foundItems /\ DOMAIN buffer = {} /\ ~flushAttempted

\* C20: a pass that finds no items is not an error: when runSingleScan returns
\* from it, completeRun passes the flush and the atomicity gate without a
\* request to the store, nothing is written or deleted, the run is marked
\* completed by the promotion, and the pass reaches failRun only with an
\* error thrown by the page or by the store.
C20_ZeroItemPassCompletes ==
  /\ [][ZeroItemPass /\ pc = "scan" /\ pc' # "scan" /\ failure' = "none" =>
          /\ pc' = "promote"
          /\ flushSucceeded' /\ ~flushAttempted'
          /\ UNCHANGED <<buffer, mainRows, inflight, dbVars>>]_vars
  /\ [][ZeroItemPass /\ pc = "promote" /\ pc' # "promote" /\ failure' = "none" =>
          /\ pc' = "cleanup"
          /\ runs'[currentRunId].status = "completed"
          /\ projects' = projects]_vars
  /\ [][ZeroItemPass /\ pc' = "failRun" /\ pc # "failRun" => failure' \in Failures]_vars

\* a pass that found nothing is over and its run is completed
C20_Witness ==
  /\ PassIsOver
  /\ scanCount > 0
  /\ ~foundItems
  /\ ThisRun \in DOMAIN runs
  /\ runs[ThisRun].status = "completed"

\* ---- the delta of a scan ----

\* C21: in every ScanResult newProjects + unchangedProjects = extracted, where
\* newProjects is the number of ids observed in this pass that were not in
\* the set of the previous pass.
C21_DeltaArithmetic ==
  /\ scanResult.newProjects + scanResult.unchangedProjects = scanResult.extracted
  /\ scanResult.newProjects <= Cardinality(scanResult.projectIds)

\* a scan that came upon one new id and one known id
C21_Witness ==
  /\ scansDone > 1
  /\ scanResult.newProjects = 1
  /\ scanResult.unchangedProjects = 1
  /\ scanResult.extracted = 2

\* C22: a pass on the list that the pass before it scanned to its end reports
\* no new id and the same totalProjects.
C22_SecondPassFindsNothingNew ==
  backToBack =>
    /\ scanResult.newProjects = 0
    /\ scanResult.totalProjects = baselineTotal
    /\ scanResult.unchangedProjects = scanResult.extracted

C22_Witness ==
  /\ backToBack
  /\ scansDone = 2
  /\ scanResult.totalProjects = 2
  /\ scanResult.extracted = 2
  /\ scanResult.newProjects = 0

\* ---- the backends ----

C24_LocalStillWorks ==
  /\ pc = "sleep" /\ ~wTimer => \A id \in ProjectIds : id \in DOMAIN localFile
  /\ pc = "stopped" /\ (scanCount > 0 \/ failure # "none") =>
       \A id \in ProjectIds : id \in DOMAIN localFile

\* ---- the touch queue ----

\* C25: the polling of the touch queue is stopped while the scheduler starts its
\* run and navigates the page, and no touch of the queue processor is in flight
\* on the page while the scheduler navigates.
C25_NoTouchWhileNavigating ==
  /\ orchPc \in {"startRun", "scan"} => ~pollTimer
  /\ orchPc = "scan" => queuePc # "touch"

\* ---- the life of a run ----

\* C26: a run is completed only if the final flush of its pass succeeded, a run
\* that has reached completed or failed never changes status again, and no run
\* is still running once its pass has ended.
C26_RunLifecycle ==
  /\ [](scanCount > 0 /\ ThisRun \in DOMAIN runs /\ runs[ThisRun].status = "completed"
          => finalFlush = "ok")
  /\ [][\A r \in DOMAIN runs :
          runs[r].status # "running" /\ r \in DOMAIN runs' => runs'[r].status = runs[r].status]_vars
  /\ [](PassIsOver => \A r \in DOMAIN runs : runs[r].status # "running")

\* ---- detection of the authentication state ----

\* C27: detectAuthState returns login_required for a URL that holds a login
\* marker whatever the page shows; otherwise, on the target domain, authenticated
\* if a sidebar selector is visible, else login_required if a login indicator is
\* visible, else unknown.
C27_DetectionPrecedence ==
  detectPc = "returned" =>
    /\ MatchesLogin(pageUrl) => authState = "login_required"
    /\ ~MatchesLogin(pageUrl) /\ isOnChatGPT(pageUrl) =>
         /\ visibleSidebar # {} => authState = "authenticated"
         /\ visibleSidebar = {} /\ visibleLogin # {} => authState = "login_required"
         /\ visibleSidebar = {} /\ visibleLogin = {} => authState = "unknown"

\* a login URL on the target domain whose page shows the sidebar
C27_Witness ==
  /\ detectPc = "returned"
  /\ pageUrl = <<"chatgpt.com", "/auth/login">>
  /\ visibleSidebar # {}
  /\ authState = "login_required"

\* ---- the title of an item ----

C29_SinglePendingFlushTimer ==
  /\ [](/\ Cardinality(timeouts) <= 1
        /\ \A t \in timeouts : t.id = timerField
        /\ timerField # NULL => \E t \in timeouts : t.id = timerField)
  /\ [][timerAdds' # timerAdds =>
          /\ timerField # NULL => timeouts' = timeouts
          /\ \E t \in timeouts' : t.id = timerField' /\ t.due <= tClock + FLUSH_INTERVAL]_vars

\* addProject was called while a timeout created earlier was pending
C29_Witness ==
  /\ timerAdds > 1
  /\ Cardinality(timerBuffer) > 1
  /\ \E t \in timeouts : t.id = timerField /\ t.due < tClock + FLUSH_INTERVAL

\* ---- the mode of a relaunched browser ----

C31_CleanupFailureLosesNothing ==
  /\ [][pc = "cleanup" /\ pc' # pc =>
          /\ ThisRun \in DOMAIN runs' /\ runs'[ThisRun].status = "completed"
          /\ pc' = "sleep" /\ failure' = failure
          /\ \A p \in DOMAIN projects :
               projects[p].last_confirmed_run_id \in RecentCompleted(runs, KEEP_RUNS) =>
                 p \in DOMAIN projects' /\ projects'[p] = projects[p]]_vars
  /\ [][/\ ThisRun \in DOMAIN runs /\ runs[ThisRun].status = "running"
        /\ ThisRun \in DOMAIN runs' /\ runs'[ThisRun].status = "completed"
        => pc' = "cleanup"]_vars

\* a cleanup failed: more than KEEP_RUNS completed runs are left after the pass,
\* the last of them this pass's, and the rows of the retained runs are there
C31_Witness ==
  /\ pc = "sleep"
  /\ Cardinality(RunsWithStatus(runs, "completed")) > KEEP_RUNS
  /\ ThisRun \in DOMAIN runs /\ runs[ThisRun].status = "completed"
  /\ \E p \in DOMAIN projects : projects[p].last_confirmed_run_id = ThisRun

\* ---- the recovery sync of initialize ----

\* C32: when initializeBackends succeeds and syncFromLocalStorage logged no
\* failure, every project of the local writer's file is in the projects table;
\* and with the store up initialize succeeds whether the sync failed or not.
C32_InitializeReconciles ==
  /\ [][pc = "init" /\ pc' = "loop" /\ ~syncFailed' =>
          \A p \in DOMAIN localFile : p \in DOMAIN projects']_vars
  /\ [][pc = "init" /\ pc' # pc /\ supabaseUp => pc' = "loop" /\ failure' = "none"]_vars

\* ---- the run a row was confirmed by ----

\* C33: every row this process has upserted carries as last_confirmed_run_id the
\* run of the pass that observed the record (the run row of a pass has the tick
\* of the pass as its id, and the record has it as lastConfirmedAt).
C33_RowCarriesObservingRun ==
  \A p \in DOMAIN projects :
    projects[p].last_confirmed_at > PriorRuns =>
      projects[p].last_confirmed_run_id = projects[p].last_confirmed_at

\* ---- notifications ----

\* a notification of this kind was sent less than one cooldown ago
SentWithinCooldown(event) ==
  \E n \in sentLog : n.event = event /\ nClock - n.at < cooldownMs

\* C34: two notifications of one kind are never sent less than a cooldown
\* apart; a call of notify is suppressed exactly when a notification of its own
\* kind was sent less than a cooldown ago, whatever was sent of other kinds.
C34_RateLimitedPerEvent ==
  /\ [](\A a \in sentLog, b \in sentLog :
          a.event = b.event /\ a.at < b.at => b.at - a.at >= cooldownMs)
  /\ [][notifyCalls' # notifyCalls /\ hasChannels =>
          (notifyResult' = "suppressed") = SentWithinCooldown(notifyEvent')]_vars

\* a call was suppressed, and a notification of the other kind was sent at the
\* time a notification of its kind had been sent
C34_Witness ==
  /\ notifyResult = "suppressed"
  /\ \E a \in sentLog, b \in sentLog : a.event # b.event /\ a.at = b.at /\ a.event = notifyEvent

\* ---- one processQueue at a time ----

\* C35: the flag isProcessing is set exactly while a processQueue is between its
\* fetch and its end; no fetch begins while the flag is set;
\* a call made while the flag is set changes neither the position, the
\* requests nor the result of the processQueue in progress; and every end of a
\* processQueue, an error of the fetch included, clears the flag.
C35_OneProcessQueueAtATime ==
  /\ [](isProcessing = (queuePc # "idle"))
  /\ [][isProcessing /\ queuePc # "fetch" => queuePc' # "fetch"]_vars
  /\ [][skipped' /\ (skipped' # skipped \/ queuePc' = queuePc) /\ isProcessing =>
          /\ queuePc' = queuePc /\ requests' = requests /\ queueResult' = queueResult
          /\ isProcessing']_vars
  /\ [][queuePc # "idle" /\ queuePc' = "idle" => ~isProcessing']_vars

\* a call was skipped while a processQueue was at the touch of its second request
C35_Witness ==
  skipped /\ isProcessing /\ queuePc = "touch" /\ queueResult.processed = 2

\* ---- records added while a flush is in flight ----

\* C36: when the run of a pass is completed, every id that was passed to
\* addProject in that pass is a row of the store that this pass confirmed: no
\* record was dropped from the buffer without having been part of a successful
\* upsert.
C36_CompletedRunHasEveryRecord ==
  (/\ scanCount > 0
   /\ ThisRun \in DOMAIN runs
   /\ runs[ThisRun].status = "completed") =>
    \A id \in currentProjectIds :
      id \in DOMAIN projects /\ projects[id].last_confirmed_at = Clock(scanCount)

\* ---- what the scheduler reports of a pass ----

\* C37: a pass whose try block runs to its end (the catch block was not entered:
\* 'Scan #n complete' is logged and previousProjectIds is advanced) has its run
\* recorded as completed; a pass whose run was marked failed went through the
\* catch block.
C37_ReportedCompleteOnlyIfCompleted ==
  [][pc # "sleep" /\ pc' = "sleep" /\ failure = "none" =>
       ThisRun \in DOMAIN runs' /\ runs'[ThisRun].status = "completed"]_vars

\* ---- the ids a pass is compared with ----

\* C38: a pass whose run ends failed, or has no run, leaves previousProjectIds
\* as it was.
C38_FailedPassKeepsPreviousIds ==
  [][/\ pc # "sleep" /\ pc' = "sleep"
     /\ ~(ThisRun \in DOMAIN runs' /\ runs'[ThisRun].status = "completed")
     => previousProjectIds' = previousProjectIds]_vars

\* a pass that the catch block handled leaves previousProjectIds as it was
FailedThroughCatchKeepsPreviousIds ==
  [][pc # "sleep" /\ pc' = "sleep" /\ failure # "none" =>
       previousProjectIds' = previousProjectIds]_vars

\* ---- the counts of a ScanResult ----

\* C40: the result of every pass has 0 <= newProjects <= extracted, and its
\* unchangedProjects is the number of ids that are both in its projectIds and in
\* the previousProjectIds the pass was given.
C40_CountsAreSetSizes ==
  [][scansDone' # scansDone =>
       /\ 0 <= scanResult'.newProjects
       /\ scanResult'.newProjects <= scanResult'.extracted
       /\ scanResult'.unchangedProjects =
            Cardinality(scanResult'.projectIds \cap previousProjectIds)]_vars

\* the same with every item of the list extracted and no id twice in the list
C40_HoldsWithoutRepeatsAndErrors ==
  [][(/\ scansDone' # scansDone
      /\ scanResult'.failed = 0
      /\ scanResult'.extracted = Cardinality(scanResult'.projectIds)) =>
       /\ 0 <= scanResult'.newProjects
       /\ scanResult'.newProjects <= scanResult'.extracted
       /\ scanResult'.unchangedProjects =
            Cardinality(scanResult'.projectIds \cap previousProjectIds)]_vars

\* ---- flushes of the local writer that overlap ----

FlushIsOver(i) == flushes[i].at \in {"returned", "threw"}

\* C39: no flush of the local writer throws, and when every flush that was
\* called is over the file holds every record that was in the buffer when
\* the last of them began.
C39_OverlappingFlushesAreSafe ==
  /\ \A i \in DOMAIN flushes : flushes[i].at # "threw"
  /\ (flushes # <<>> /\ \A i \in DOMAIN flushes : FlushIsOver(i)) =>
       outputFile.exists /\ lastStorage \subseteq outputFile.projects

====
